---- MODULE Spec2Model ----
(***************************************************************************)
(* A model of masque-go (RFC 9298 CONNECT-UDP over HTTP/3).                *)
(*                                                                         *)
(*  SpecProxy / FairSpecProxy : the lifecycle of Proxy (src/proxy.go):     *)
(*      Proxy, ProxyConnectedSocket, the three forwarding goroutines of a  *)
(*      flow and Close, step by step at the granularity of the accesses to *)
(*      shared state (closed, mx, conns, refCount, the stream, the socket).*)
(*                                                                         *)
(*  SpecUplink   : proxyConnSend on an unbound flow (src/proxy.go): HTTP   *)
(*      datagrams as byte sequences, the context ID parsed as a QUIC       *)
(*      varint, the payloads written to the UDP socket.                    *)
(*                                                                         *)
(*  SpecDownlink : proxyConnReceive on an unbound flow (src/proxy.go):     *)
(*      UDP packets read into the 1500 byte buffer and the HTTP datagrams  *)
(*      handed to SendDatagram.                                            *)
(*                                                                         *)
(*  SpecConn     : the read deadline of proxiedConn (src/conn.go):         *)
(*      ReadFrom, SetReadDeadline and the AfterFunc timer over a discrete  *)
(*      clock, with the per-read context and deadlineMx.                   *)
(*                                                                         *)
(*  SpecConnClose / SpecConnShutdown : the same connection with Close, the *)
(*      capsule goroutine of newProxiedConn and WriteTo, and with the peer *)
(*      closing the request stream.                                        *)
(*                                                                         *)
(*  SpecConnRead : ReadFrom at the level of bytes (context ID, copy).      *)
(*                                                                         *)
(*  SpecRoundTrip : one payload from WriteTo through the proxy to an       *)
(*      echoing target and back to ReadFrom.                               *)
(*                                                                         *)
(*  SpecClient   : Client.dial and Client.Close around dialOnce            *)
(*      (src/client.go).                                                   *)
(*                                                                         *)
(*  SpecProxyStatus : Proxy.Proxy up to the hand-over of the socket, as a   *)
(*      function of the errors of ResolveUDPAddr, DialUDP and of the       *)
(*      Proxy-Status header (src/unnamed/part_019, src/proxy.go).          *)
(*                                                                         *)
(*  SpecFlowEnd  : the end of one unbound flow of the proxy at the level of *)
(*      the single calls of the capsule goroutine (str.Close, then         *)
(*      conn.Close), with the datagram queue of the stream (src/proxy.go). *)
(*                                                                         *)
(*  SpecBind     : bound flows (ProxyListen) of one Proxy and its          *)
(*      compression table (src/proxy.go, src/compression.go).              *)
(*                                                                         *)
(*  SpecCapsule  : the parsers of the ADDRESS_ASSIGN, ADDRESS_REQUEST and  *)
(*      ROUTE_ADVERTISEMENT capsule payloads, byte level.                  *)
(*                                                                         *)
(*  SpecIPConn   : ProxiedIPConn: the capsule reader, Routes and           *)
(*      LocalPrefixes (src/conn_ip.go).                                    *)
(*                                                                         *)
(*  SpecRequest  : the request validators as functions of the request:     *)
(*      ParseRequest (src/request.go), ParseConnectUDPRequest and the      *)
(*      ParseRequest that knows Connect-Udp-Bind (src/unnamed/part_000).   *)
(***************************************************************************)
EXTENDS Integers, Sequences, FiniteSets, TLC

\* ------------------------------------------------------------------ bounds
NumFlows == 2

Flows == 1..NumFlows

\* ------------------------------------------------------------ HTTP status
StatusOK == 200
StatusServiceUnavailable == 503
StatusGatewayTimeout == 504
StatusBadRequest == 400
StatusBadGateway == 502
StatusMethodNotAllowed == 405
StatusInternalServerError == 500
StatusNotImplemented == 501

VARIABLES
    \* ---- Proxy (src/proxy.go) ----
    closed,        \* Proxy.closed (atomic.Bool)
    mx,            \* Proxy.mx: "free" or its holder
    refCount,      \* Proxy.refCount (sync.WaitGroup counter)
    conns,         \* Proxy.conns: the flows whose proxyEntry is in the map
    pc,            \* per call: position in Proxy / proxyConnectedSocket
    status,        \* per call: status written with WriteHeader (0: none)
    ret,           \* per call: the returned error ("none" until it returns)
    task,          \* per flow: position of the three goroutines
    peerFin,       \* per flow: the peer closed its send direction of the stream
    rcvErr,        \* per flow: the stream's receive side has ended (datagram receive error set)
    sendClosed,    \* per flow: str.Close() was called (datagram send error set)
    sockClosed,    \* per flow: conn.Close() was called on the UDP socket
    closePC,       \* position of Proxy.Close
    closeIter,     \* entries Close's range loop has not visited yet
    startedAfterClose, \* per call: closed was already set when the call started
    firstExit      \* per flow: the goroutine that exited first ("none" so far)

proxyVars == <<closed, mx, refCount, conns, pc, status, ret, task, peerFin, rcvErr,
               sendClosed, sockClosed, closePC, closeIter,
               startedAfterClose, firstExit>>

VARIABLES
    \* ---- uplink of one unbound flow: Proxy.proxyConnSend ----
    dgQueue,       \* HTTP datagrams queued on the stream for ReceiveDatagram
    strRcvErr,     \* the stream's datagram receive error is set
    delivered,     \* history: datagrams ReceiveDatagram has returned, in order
    upPC,          \* position of proxyConnSend
    upData,        \* proxyConnSend's data and n while at conn.Write
    upErr,         \* why proxyConnSend returned ("none" while it runs)
    udpOut,        \* history: payloads conn.Write has written, in order
    \* ---- downlink of one unbound flow: Proxy.proxyConnReceive ----
    udpIn,         \* UDP packets queued in the socket
    udpClosed,     \* the UDP socket is closed
    readPkts,      \* history: b[:n] of every successful conn.ReadFrom, in order
    downPC,        \* position of proxyConnReceive
    downData,      \* proxyConnReceive's data while at str.SendDatagram
    downErr,       \* why proxyConnReceive returned ("none" while it runs)
    sendCalls      \* history: datagrams handed to str.SendDatagram, in order

upVars == <<dgQueue, strRcvErr, delivered, upPC, upData, upErr, udpOut>>
downVars == <<udpIn, udpClosed, readPkts, downPC, downData, downErr, sendCalls>>

VARIABLES
    \* ---- proxiedConn (src/conn.go): read deadlines ----
    now,           \* the clock (time.Now())
    deadline,      \* proxiedConn.deadline (0: the zero time)
    readCtx,       \* proxiedConn.readCtx: the current read context
    cancelled,     \* the read contexts that have been cancelled
    timerState,    \* proxiedConn.readDeadlineTimer: "nil", "armed", "expired", "stopped"
    timerAt,       \* when the armed timer is due
    callbacks,     \* timer functions the runtime has started and that have not run yet
    deadlineMx,    \* proxiedConn.deadlineMx: "free" or its holder
    connQueue,     \* context-ID-0 datagrams queued on the stream for ReceiveDatagram
    rpc,           \* position of the ReadFrom caller
    rctx,          \* ReadFrom's ctx
    rresult,       \* what the last ReadFrom returned
    rretTime,      \* the clock when it returned
    rretDeadline,  \* the deadline in effect when it returned
    spc,           \* position of the SetReadDeadline caller
    st,            \* SetReadDeadline's t
    sOld,          \* SetReadDeadline's oldDeadline
    sNow,          \* SetReadDeadline's now
    extendedFrom,  \* the pending deadline t1 that was extended during the current ReadFrom
    extendedTo,    \* the later deadline t2 it was extended to (0: no such extension)
    expiredOnce,   \* a ReadFrom has returned os.ErrDeadlineExceeded
    rAfterExpiry,  \* the current ReadFrom was called after that
    restarted,     \* the current ReadFrom went back to start after its deadline was extended
    cbSpared,      \* the last timer function found a deadline later than now and cancelled nothing
    clearedOld,    \* the pending future deadline the last SetReadDeadline(zero) cleared (0: none)
    pastSet,       \* the last SetReadDeadline call was given a time not after now
    rAfterPast,    \* the current ReadFrom was called after such a call returned
    \* ---- proxiedConn: Close, the capsule goroutine, WriteTo (src/conn.go) ----
    connClosed,    \* proxiedConn.closed (atomic.Bool)
    cpc,           \* position of proxiedConn.Close
    closeCalls,    \* Close calls made so far
    cancelReadCalls, \* str.CancelRead calls made by Close
    skpc,          \* position of the goroutine started by newProxiedConn
    connPeerFin,   \* the peer closed its send direction of the request stream
    connRcvErr,    \* the stream's receive side has ended (datagram receive error set)
    connSendClosed,\* str.Close() was called (datagram send error set)
    wresult        \* what the last WriteTo returned

connVars == <<now, deadline, readCtx, cancelled, timerState, timerAt, callbacks, deadlineMx,
              connQueue, rpc, rctx, rresult, rretTime, rretDeadline, spc, st, sOld, sNow,
              extendedFrom, extendedTo, expiredOnce, rAfterExpiry, restarted, clearedOld,
              cbSpared, pastSet, rAfterPast, connClosed, cpc, closeCalls, cancelReadCalls, skpc,
              connPeerFin, connRcvErr, connSendClosed, wresult>>

connCloseVars == <<connClosed, cpc, closeCalls, cancelReadCalls, skpc, connPeerFin,
                   connRcvErr, connSendClosed, wresult>>

VARIABLES
    \* ---- proxiedConn.ReadFrom, byte level (src/conn.go) ----
    crQueue,       \* HTTP datagrams queued on the request stream
    crDelivered,   \* the datagrams ReceiveDatagram has returned, in order
    crPC,          \* position of ReadFrom: "idle", "recv"
    crBuf,         \* len(b) of the ReadFrom in progress
    crReturns      \* what the ReadFrom calls returned, in order

crVars == <<crQueue, crDelivered, crPC, crBuf, crReturns>>

VARIABLES
    \* ---- one payload from the client to an echoing target and back ----
    rtPC,          \* where the payload is: "idle", "uplink", "target", "downlink", "client", "done", "failed"
    rtPayload,     \* p, the argument of WriteTo
    rtWire,        \* the HTTP datagram or UDP packet in flight
    rtTarget,      \* the packets the target received
    rtRead,        \* what ReadFrom returned: the bytes b[:n]
    rtErr          \* the call that failed ("none" so far)

rtVars == <<rtPC, rtPayload, rtWire, rtTarget, rtRead, rtErr>>

VARIABLES
    \* ---- Client (src/client.go) ----
    dialOnce,      \* Client.dialOnce: "fresh", "running" (a Do call runs its function), "done"
    dialErr,       \* Client.dialErr is set
    clConn,        \* Client.conn: "nil", "open", "closed"
    rtSet,         \* Client.rt is set
    quicDials,     \* quic.DialAddr calls made
    dpc,           \* per call: position in Client.dial
    dret,          \* per call: what it returned ("none" so far)
    dconn,         \* per call: the connection c.rt.Start() gave it (0: none)
    dstreams,      \* per call: request streams it opened
    clpc,          \* position of Client.Close
    closeWaited,   \* Close was called while the first dial was running
    dsel,          \* per call: the case the select took and the peer's settings then
    dsent,         \* per call: request headers sent on its stream
    dstatus,       \* per call: status of the response read (0: none read)
    drsp           \* per call: status of the response returned (0: nil)

clVars == <<dialOnce, dialErr, clConn, rtSet, quicDials, dpc, dret, dconn, dstreams, clpc,
            closeWaited, dsel, dsent, dstatus, drsp>>

clReqVars == <<dsel, dsent, dstatus, drsp>>

VARIABLES
    \* ---- request validators (src/request.go, src/unnamed/part_000) ----
    rqPC,          \* "idle", "received", "parsed"
    rqReq,         \* the *http.Request handed to the validator
    rqTemplateOk,  \* url.Parse(template.Raw()) succeeds
    rqBy,          \* the validator that was called
    rqOut          \* what it returned

rqVars == <<rqPC, rqReq, rqTemplateOk, rqBy, rqOut>>

VARIABLES
    \* ---- Proxy.Proxy and the Proxy-Status header (src/unnamed/part_019) ----
    psPC,          \* "idle", "entry", "resolve", "dial", "marshal", "connected", "returned"
    psIn,          \* the call: revision, s.closed, what ResolveUDPAddr, DialUDP, Marshal do
    psProxyStatus, \* the parameters of the proxyStatus item
    psHeader,      \* the Proxy-Status header of the response (set: FALSE when none)
    psWritten,     \* the statuses handed to w.WriteHeader, in order
    psRet          \* what Proxy returned

psVars == <<psPC, psIn, psProxyStatus, psHeader, psWritten, psRet>>

VARIABLES
    \* ---- the end of an unbound flow (src/proxy.go, proxyConnectedSocket) ----
    feQueue,       \* datagrams queued on the request stream, by kind
    fePeerFin,     \* the client closed its send direction of the stream
    feRcvErr,      \* the stream's Read failed: receive error of the datagrams
    feSendClosed,  \* str.Close() was called
    feSockClosed,  \* conn.Close() was called
    feCap,         \* capsule goroutine: "read", "close", "closeconn", "exited"
    feUp,          \* uplink goroutine: "recv", "write", "close", "exited"
    feDown,        \* downlink goroutine: "read", "send", "close", "exited"
    feHeld,        \* when the datagram the uplink holds was delivered ("none": holds none)
    feWritten,     \* the delivery times of the datagrams written to the socket
    feRefused      \* a conn.Write of a datagram delivered after conn.Close() failed

feVars == <<feQueue, fePeerFin, feRcvErr, feSendClosed, feSockClosed, feCap, feUp, feDown,
            feHeld, feWritten, feRefused>>

VARIABLES
    \* ---- bound flows and the compression table (src/proxy.go, src/compression.go) ----
    ctTable,       \* Proxy.compressionTable: <<>> (nil) or <<the table>>
    bdpc,          \* per bound flow: "idle", "running", "ended"
    ctOwn,         \* per bound flow: the assignments <<context ID, addr>> of its client that were stored
    ctErr,         \* the last handleAssignmentCapsule call returned an error
    ctReply,       \* the last COMPRESSION_ASSIGN capsule written back: <<flow, context ID, addr>>
    ctSent,        \* the last datagram written to a socket: its flow, context ID, destination
    ctRecv         \* the last datagram sent on a stream: its flow and context ID

bdVars == <<ctTable, bdpc, ctOwn, ctErr, ctReply, ctSent, ctRecv>>

VARIABLES
    \* ---- the typed capsule parsers ----
    cpPC,          \* "idle", "received", "parsed"
    cpType,        \* the capsule type: 1 ADDRESS_ASSIGN, 2 ADDRESS_REQUEST, 3 ROUTE_ADVERTISEMENT
    cpPayload,     \* the capsule value: the bytes the capsule's reader yields before io.EOF
    cpOut          \* what the parser returned: err, and the entries when err is "none"

cpVars == <<cpPC, cpType, cpPayload, cpOut>>

VARIABLES
    \* ---- ProxiedIPConn (src/conn_ip.go) ----
    ipStream,      \* capsules the peer sent that readFromStream has not read yet
    ipSent,        \* capsules the peer has sent
    ipFin,         \* the peer closed its send direction of the stream
    ipReader,      \* readFromStream: "capsule", "ranges", "exited"
    ipRanges,      \* the advertisement whose ranges readFromStream is reading (0: none)
    assignedAddresses,     \* what c.assignedAddresses points to (0: nil)
    availableRoutes,       \* what c.availableRoutes points to (0: nil)
    assignedAddressNotify, \* the channel holds its one element
    availableRoutesNotify, \* the channel holds its one element
    routesPC,      \* Routes: "idle", "waiting", "returned"
    routesRet,     \* what the last Routes call returned
    prefixesRet    \* what the last LocalPrefixes call returned (0: none yet)

ipVars == <<ipStream, ipSent, ipFin, ipReader, ipRanges, assignedAddresses, availableRoutes,
            assignedAddressNotify, availableRoutesNotify, routesPC, routesRet, prefixesRet>>

vars == <<proxyVars, upVars, downVars, connVars, crVars, rtVars, clVars, rqVars, psVars, feVars, bdVars, cpVars, ipVars>>
nonIpVars == <<proxyVars, upVars, downVars, connVars, crVars, rtVars, clVars, rqVars, psVars, feVars, bdVars, cpVars>>
nonCpVars == <<proxyVars, upVars, downVars, connVars, crVars, rtVars, clVars, rqVars, psVars, feVars, bdVars, ipVars>>
nonBdVars == <<proxyVars, upVars, downVars, connVars, crVars, rtVars, clVars, rqVars, psVars, feVars, cpVars, ipVars>>
nonFeVars == <<proxyVars, upVars, downVars, connVars, crVars, rtVars, clVars, rqVars, psVars, bdVars, cpVars, ipVars>>
nonRqVars == <<proxyVars, upVars, downVars, connVars, crVars, rtVars, clVars, psVars, feVars, bdVars, cpVars, ipVars>>
nonPsVars == <<proxyVars, upVars, downVars, connVars, crVars, rtVars, clVars, rqVars, feVars, bdVars, cpVars, ipVars>>

nonProxyVars == <<upVars, downVars, connVars, crVars, rtVars, clVars, rqVars, psVars, feVars, bdVars, cpVars, ipVars>>
nonUpVars == <<proxyVars, downVars, connVars, crVars, rtVars, clVars, rqVars, psVars, feVars, bdVars, cpVars, ipVars>>
nonDownVars == <<proxyVars, upVars, connVars, crVars, rtVars, clVars, rqVars, psVars, feVars, bdVars, cpVars, ipVars>>
nonConnVars == <<proxyVars, upVars, downVars, crVars, rtVars, clVars, rqVars, psVars, feVars, bdVars, cpVars, ipVars>>
nonCrVars == <<proxyVars, upVars, downVars, connVars, rtVars, clVars, rqVars, psVars, feVars, bdVars, cpVars, ipVars>>
nonRtVars == <<proxyVars, upVars, downVars, connVars, crVars, clVars, rqVars, psVars, feVars, bdVars, cpVars, ipVars>>
nonClVars == <<proxyVars, upVars, downVars, connVars, crVars, rtVars, rqVars, psVars, feVars, bdVars, cpVars, ipVars>>

\* The entry point each call uses: flows alternate between the two.
callKind(f) == IF f % 2 = 1 THEN "ProxyConnectedSocket" ELSE "Proxy"

NoTasks == [up |-> "none", down |-> "none", cap |-> "none"]

ProxyInit ==
    /\ closed = FALSE
    /\ mx = "free"
    /\ refCount = 0
    /\ conns = {}
    /\ pc = [f \in Flows |-> "idle"]
    /\ status = [f \in Flows |-> 0]
    /\ ret = [f \in Flows |-> "none"]
    /\ task = [f \in Flows |-> NoTasks]
    /\ peerFin = [f \in Flows |-> FALSE]
    /\ rcvErr = [f \in Flows |-> FALSE]
    /\ sendClosed = [f \in Flows |-> FALSE]
    /\ sockClosed = [f \in Flows |-> FALSE]
    /\ closePC = "idle"
    /\ closeIter = {}
    /\ startedAfterClose = [f \in Flows |-> FALSE]
    /\ firstExit = [f \in Flows |-> "none"]

AllExited(f) == task[f].up = "exited" /\ task[f].down = "exited" /\ task[f].cap = "exited"

Running(f, k) == task[f][k] \notin {"none", "exited"}

NoteExit(f, k) == firstExit' = IF firstExit[f] = "none" THEN [firstExit EXCEPT ![f] = k] ELSE firstExit

\* ------------------------------------------------- Proxy / ProxyConnectedSocket

\* The application calls Proxy or ProxyConnectedSocket for a new request.
Call(f) ==
    /\ pc[f] = "idle"
    /\ pc' = [pc EXCEPT ![f] = "entry"]
    /\ startedAfterClose' = [startedAfterClose EXCEPT ![f] = closed]
    /\ UNCHANGED nonProxyVars
    /\ UNCHANGED <<closed, mx, refCount, conns, status, ret, task, peerFin, rcvErr,
                   sendClosed, sockClosed, closePC, closeIter, firstExit>>

\* Proxy: the closed check at entry.
ProxyEntry(f) ==
    /\ pc[f] = "entry"
    /\ callKind(f) = "Proxy"
    /\ IF closed
         THEN /\ status' = [status EXCEPT ![f] = StatusServiceUnavailable]
              /\ ret' = [ret EXCEPT ![f] = "ErrClosed"]
              /\ pc' = [pc EXCEPT ![f] = "returned"]
         ELSE /\ pc' = [pc EXCEPT ![f] = "dial"]
              /\ UNCHANGED <<status, ret>>
    /\ UNCHANGED nonProxyVars
    /\ UNCHANGED <<closed, mx, refCount, conns, task, peerFin, rcvErr, sendClosed,
                   sockClosed, closePC, closeIter, startedAfterClose, firstExit>>

\* Proxy: ResolveUDPAddr and DialUDP; either may fail.
ProxyDial(f) ==
    /\ pc[f] = "dial"
    /\ \E ok \in BOOLEAN :
         IF ok
           THEN /\ pc' = [pc EXCEPT ![f] = "check"]
                /\ UNCHANGED <<status, ret>>
           ELSE /\ status' = [status EXCEPT ![f] = StatusGatewayTimeout]
                /\ ret' = [ret EXCEPT ![f] = "err"]
                /\ pc' = [pc EXCEPT ![f] = "returned"]
    /\ UNCHANGED nonProxyVars
    /\ UNCHANGED <<closed, mx, refCount, conns, task, peerFin, rcvErr, sendClosed,
                   sockClosed, closePC, closeIter, startedAfterClose, firstExit>>

AtCheck(f) == pc[f] = "check" \/ (pc[f] = "entry" /\ callKind(f) = "ProxyConnectedSocket")

CheckClosedSkipped(f) ==
    /\ AtCheck(f)
    /\ pc' = [pc EXCEPT ![f] = "add"]
    /\ UNCHANGED nonProxyVars
    /\ UNCHANGED <<closed, mx, refCount, conns, status, ret, task, peerFin, rcvErr,
                   sendClosed, sockClosed, closePC, closeIter,
                   startedAfterClose, firstExit>>

\* proxyConnectedSocket: the closed check.
CheckClosed(f) ==
    /\ AtCheck(f)
    /\ IF closed
         THEN /\ sockClosed' = [sockClosed EXCEPT ![f] = TRUE]
              /\ status' = [status EXCEPT ![f] = StatusServiceUnavailable]
              /\ ret' = [ret EXCEPT ![f] = "ErrClosed"]
              /\ pc' = [pc EXCEPT ![f] = "returned"]
         ELSE /\ pc' = [pc EXCEPT ![f] = "add"]
              /\ UNCHANGED <<sockClosed, status, ret>>
    /\ UNCHANGED nonProxyVars
    /\ UNCHANGED <<closed, mx, refCount, conns, task, peerFin, rcvErr, sendClosed,
                   closePC, closeIter, startedAfterClose, firstExit>>

\* proxyConnectedSocket: refCount.Add(1), the response header, WriteHeader(200).
Upgrade(f) ==
    /\ pc[f] = "add"
    /\ refCount' = refCount + 1
    /\ status' = [status EXCEPT ![f] = StatusOK]
    /\ pc' = [pc EXCEPT ![f] = "reg"]
    /\ UNCHANGED nonProxyVars
    /\ UNCHANGED <<closed, mx, conns, ret, task, peerFin, rcvErr, sendClosed,
                   sockClosed, closePC, closeIter, startedAfterClose, firstExit>>

\* proxyConnectedSocket: the entry is added to conns under mx.
Register(f) ==
    /\ pc[f] = "reg"
    /\ mx = "free"
    /\ conns' = conns \cup {f}
    /\ pc' = [pc EXCEPT ![f] = "spawn"]
    /\ UNCHANGED nonProxyVars
    /\ UNCHANGED <<closed, mx, refCount, status, ret, task, peerFin, rcvErr, sendClosed,
                   sockClosed, closePC, closeIter, startedAfterClose, firstExit>>

\* proxyConnectedSocket: wg.Add(3) and the three go statements.
Spawn(f) ==
    /\ pc[f] = "spawn"
    /\ task' = [task EXCEPT ![f] = [up |-> "recv", down |-> "read", cap |-> "read"]]
    /\ pc' = [pc EXCEPT ![f] = "wait"]
    /\ UNCHANGED nonProxyVars
    /\ UNCHANGED <<closed, mx, refCount, conns, status, ret, peerFin, rcvErr, sendClosed,
                   sockClosed, closePC, closeIter, startedAfterClose, firstExit>>

WaitDoneTwo(f) == task[f].up = "exited" /\ task[f].down = "exited"

\* wg.Wait() returns: all three goroutines have called wg.Done().
WaitDone(f) == AllExited(f)

\* proxyConnectedSocket: wg.Wait(), return nil, the deferred refCount.Done()
\* (and, in Proxy, the deferred conn.Close()).
Return(f) ==
    /\ pc[f] = "wait"
    /\ WaitDone(f)
    /\ refCount' = refCount - 1
    /\ ret' = [ret EXCEPT ![f] = "nil"]
    /\ pc' = [pc EXCEPT ![f] = "returned"]
    /\ sockClosed' = IF callKind(f) = "Proxy" THEN [sockClosed EXCEPT ![f] = TRUE] ELSE sockClosed
    /\ UNCHANGED nonProxyVars
    /\ UNCHANGED <<closed, mx, conns, status, task, peerFin, rcvErr, sendClosed,
                   closePC, closeIter, startedAfterClose, firstExit>>

\* ------------------------------------------------------------- the peer

\* The peer ends its send direction of the request stream (FIN or reset):
\* the next Read on the stream returns io.EOF or an error.
PeerFin(f) ==
    /\ pc[f] = "wait"
    /\ ~peerFin[f]
    /\ peerFin' = [peerFin EXCEPT ![f] = TRUE]
    /\ UNCHANGED nonProxyVars
    /\ UNCHANGED <<closed, mx, refCount, conns, pc, status, ret, task, rcvErr, sendClosed,
                   sockClosed, closePC, closeIter, startedAfterClose, firstExit>>

\* ---------------------------------------------- uplink: proxyConnSend (unbound)

\* str.ReceiveDatagram returns a datagram. quicvarint.Parse fails on it
\* ("malformed"), or its context ID is not 0 (dropped, continue), or it is 0.
\* The HTTP/3 layer stops delivering once both directions of the stream ended.
UpRecvDatagram(f) ==
    /\ task[f].up = "recv"
    /\ ~(rcvErr[f] /\ sendClosed[f])
    /\ \E kind \in {"ctx0", "other", "malformed"} :
         task' = [task EXCEPT ![f].up = CASE kind = "ctx0" -> "write"
                                          [] kind = "other" -> "recv"
                                          [] OTHER -> "close"]
    /\ UNCHANGED nonProxyVars
    /\ UNCHANGED <<closed, mx, refCount, conns, pc, status, ret, peerFin, rcvErr,
                   sendClosed, sockClosed, closePC, closeIter, startedAfterClose, firstExit>>

\* str.ReceiveDatagram returns the stream's receive error.
UpRecvErr(f) ==
    /\ task[f].up = "recv"
    /\ rcvErr[f]
    /\ task' = [task EXCEPT ![f].up = "close"]
    /\ UNCHANGED nonProxyVars
    /\ UNCHANGED <<closed, mx, refCount, conns, pc, status, ret, peerFin, rcvErr,
                   sendClosed, sockClosed, closePC, closeIter, startedAfterClose, firstExit>>

\* conn.Write(data[n:]): fails on a closed socket, and may fail otherwise
\* (e.g. ICMP port unreachable on a connected socket).
UpWrite(f) ==
    /\ task[f].up = "write"
    /\ \E ok \in BOOLEAN :
         task' = [task EXCEPT ![f].up = IF ok /\ ~sockClosed[f] THEN "recv" ELSE "close"]
    /\ UNCHANGED nonProxyVars
    /\ UNCHANGED <<closed, mx, refCount, conns, pc, status, ret, peerFin, rcvErr,
                   sendClosed, sockClosed, closePC, closeIter, startedAfterClose, firstExit>>

\* The uplink goroutine after proxyConnSend returned: str.Close(), wg.Done().
UpClose(f) ==
    /\ task[f].up = "close"
    /\ sendClosed' = [sendClosed EXCEPT ![f] = TRUE]
    /\ task' = [task EXCEPT ![f].up = "exited"]
    /\ NoteExit(f, "up")
    /\ UNCHANGED nonProxyVars
    /\ UNCHANGED <<closed, mx, refCount, conns, pc, status, ret, peerFin, rcvErr,
                   sockClosed, closePC, closeIter, startedAfterClose>>

\* ------------------------------------------ downlink: proxyConnReceive (unbound)

\* conn.ReadFrom on the open socket returns a packet, or an error.
DownRead(f) ==
    /\ task[f].down = "read"
    /\ ~sockClosed[f]
    /\ \E ok \in BOOLEAN :
         task' = [task EXCEPT ![f].down = IF ok THEN "send" ELSE "close"]
    /\ UNCHANGED nonProxyVars
    /\ UNCHANGED <<closed, mx, refCount, conns, pc, status, ret, peerFin, rcvErr,
                   sendClosed, sockClosed, closePC, closeIter, startedAfterClose, firstExit>>

\* conn.ReadFrom on the closed socket returns net.ErrClosed.
DownReadClosed(f) ==
    /\ task[f].down = "read"
    /\ sockClosed[f]
    /\ task' = [task EXCEPT ![f].down = "close"]
    /\ UNCHANGED nonProxyVars
    /\ UNCHANGED <<closed, mx, refCount, conns, pc, status, ret, peerFin, rcvErr,
                   sendClosed, sockClosed, closePC, closeIter, startedAfterClose, firstExit>>

\* str.SendDatagram(data): fails once the send direction is closed, and may
\* fail otherwise (e.g. the datagram exceeds the QUIC datagram size).
DownSend(f) ==
    /\ task[f].down = "send"
    /\ \E ok \in BOOLEAN :
         task' = [task EXCEPT ![f].down = IF ok /\ ~sendClosed[f] THEN "read" ELSE "close"]
    /\ UNCHANGED nonProxyVars
    /\ UNCHANGED <<closed, mx, refCount, conns, pc, status, ret, peerFin, rcvErr,
                   sendClosed, sockClosed, closePC, closeIter, startedAfterClose, firstExit>>

\* The downlink goroutine after proxyConnReceive returned: str.Close(), wg.Done().
\* (The early return on io.EOF is not taken: neither UDPConn.ReadFrom nor
\* SendDatagram returns io.EOF.)
DownClose(f) ==
    /\ task[f].down = "close"
    /\ sendClosed' = [sendClosed EXCEPT ![f] = TRUE]
    /\ task' = [task EXCEPT ![f].down = "exited"]
    /\ NoteExit(f, "down")
    /\ UNCHANGED nonProxyVars
    /\ UNCHANGED <<closed, mx, refCount, conns, pc, status, ret, peerFin, rcvErr,
                   sockClosed, closePC, closeIter, startedAfterClose>>

\* ------------------------------------------ capsule drain: processCapsule (unbound)

\* http3.ParseCapsule / io.Copy fail: the stream's Read returned io.EOF or an
\* error (peer FIN or reset, or CancelRead). The HTTP/3 stream records the read
\* error as the datagram receive error.
CapRead(f) ==
    /\ task[f].cap = "read"
    /\ peerFin[f] \/ rcvErr[f]
    /\ rcvErr' = [rcvErr EXCEPT ![f] = TRUE]
    /\ task' = [task EXCEPT ![f].cap = "close"]
    /\ UNCHANGED nonProxyVars
    /\ UNCHANGED <<closed, mx, refCount, conns, pc, status, ret, peerFin,
                   sendClosed, sockClosed, closePC, closeIter, startedAfterClose, firstExit>>

CapCloseNoConnClose(f) ==
    /\ task[f].cap = "close"
    /\ sendClosed' = [sendClosed EXCEPT ![f] = TRUE]
    /\ task' = [task EXCEPT ![f].cap = "exited"]
    /\ NoteExit(f, "cap")
    /\ UNCHANGED nonProxyVars
    /\ UNCHANGED <<closed, mx, refCount, conns, pc, status, ret, peerFin, rcvErr,
                   sockClosed, closePC, closeIter, startedAfterClose>>

\* The capsule goroutine after processCapsule returned: str.Close(),
\* conn.Close(), wg.Done().
CapClose(f) ==
    /\ task[f].cap = "close"
    /\ sendClosed' = [sendClosed EXCEPT ![f] = TRUE]
    /\ sockClosed' = [sockClosed EXCEPT ![f] = TRUE]
    /\ task' = [task EXCEPT ![f].cap = "exited"]
    /\ NoteExit(f, "cap")
    /\ UNCHANGED nonProxyVars
    /\ UNCHANGED <<closed, mx, refCount, conns, pc, status, ret, peerFin, rcvErr,
                   closePC, closeIter, startedAfterClose>>

\* ---------------------------------------------------------------- Proxy.Close

\* s.closed.Store(true)
CloseStore ==
    /\ closePC = "idle"
    /\ closed' = TRUE
    /\ closePC' = "lock"
    /\ UNCHANGED nonProxyVars
    /\ UNCHANGED <<mx, refCount, conns, pc, status, ret, task, peerFin, rcvErr,
                   sendClosed, sockClosed, closeIter, startedAfterClose, firstExit>>

\* s.mx.Lock(); the range loop starts over the entries now in the map.
CloseLock ==
    /\ closePC = "lock"
    /\ mx = "free"
    /\ mx' = "Close"
    /\ closeIter' = conns
    /\ closePC' = "iter"
    /\ UNCHANGED nonProxyVars
    /\ UNCHANGED <<closed, refCount, conns, pc, status, ret, task, peerFin, rcvErr,
                   sendClosed, sockClosed, startedAfterClose, firstExit>>

\* One iteration: entry.str.CancelRead, entry.str.Close, entry.conn.Close.
CloseEntry(f) ==
    /\ closePC = "iter"
    /\ f \in closeIter
    /\ rcvErr' = [rcvErr EXCEPT ![f] = TRUE]
    /\ sendClosed' = [sendClosed EXCEPT ![f] = TRUE]
    /\ sockClosed' = [sockClosed EXCEPT ![f] = TRUE]
    /\ closeIter' = closeIter \ {f}
    /\ UNCHANGED nonProxyVars
    /\ UNCHANGED <<closed, mx, refCount, conns, pc, status, ret, task, peerFin,
                   closePC, startedAfterClose, firstExit>>

\* s.conns = nil; s.mx.Unlock()
CloseUnlock ==
    /\ closePC = "iter"
    /\ closeIter = {}
    /\ conns' = {}
    /\ mx' = "free"
    /\ closePC' = "wait"
    /\ UNCHANGED nonProxyVars
    /\ UNCHANGED <<closed, refCount, pc, status, ret, task, peerFin, rcvErr,
                   sendClosed, sockClosed, closeIter, startedAfterClose, firstExit>>

\* s.refCount.Wait(); return nil
CloseWait ==
    /\ closePC = "wait"
    /\ refCount = 0
    /\ closePC' = "returned"
    /\ UNCHANGED nonProxyVars
    /\ UNCHANGED <<closed, mx, refCount, conns, pc, status, ret, task, peerFin, rcvErr,
                   sendClosed, sockClosed, closeIter, startedAfterClose, firstExit>>

\* ------------------------------------------------------- bytes and varints

\* Bounds of the forwarding models.
MaxDgLen == 2      \* longest HTTP datagram the peer sends
MaxDgrams == 2     \* datagrams the peer sends on the flow
MaxPktLen == 2     \* longest UDP packet the target sends
MaxPkts == 2       \* packets the target sends

\* Byte values used: 0x00 (varint 0), 0x01 (varint 1), 0x40 (first byte of a
\* two-byte varint).
Bytes == {0, 1, 64}

SeqsUpTo(S, n) == UNION {[1..k -> S] : k \in 0..n}

Min(a, b) == IF a < b THEN a ELSE b

Pow2(k) == CASE k = 0 -> 1 [] k = 1 -> 2 [] k = 2 -> 4 [] OTHER -> 8

RECURSIVE BigEndian(_, _, _)
\* The value of bytes b[from..to], big endian, continuing from acc.
BigEndian(b, i, acc) ==
    IF i > Len(b) THEN acc ELSE BigEndian(b, i + 1, acc * 256 + b[i])

\* quicvarint.Parse(b): the value, the number of bytes read, or an error
\* (io.EOF on empty input, io.ErrUnexpectedEOF on a truncated varint).
quicvarintParse(b) ==
    IF Len(b) = 0 THEN [err |-> TRUE, value |-> 0, n |-> 0]
    ELSE LET l == Pow2(b[1] \div 64) IN
         IF Len(b) < l THEN [err |-> TRUE, value |-> 0, n |-> 0]
         ELSE [err |-> FALSE,
               value |-> BigEndian(SubSeq(b, 2, l), 1, b[1] % 64),
               n |-> l]

\* contextIDZero = quicvarint.Append([]byte{}, 0)
contextIDZero == <<0>>

\* ------------------------------------- uplink: proxyConnSend, byte level (unbound)

UpInit ==
    /\ dgQueue = <<>>
    /\ strRcvErr = FALSE
    /\ delivered = <<>>
    /\ upPC = "recv"
    /\ upData = [data |-> <<>>, n |-> 0]
    /\ upErr = "none"
    /\ udpOut = <<>>

\* The peer sends an HTTP datagram on the flow; the stream queues it.
PeerSendDatagram(d) ==
    /\ Len(delivered) + Len(dgQueue) < MaxDgrams
    /\ ~strRcvErr
    /\ dgQueue' = Append(dgQueue, d)
    /\ UNCHANGED <<strRcvErr, delivered, upPC, upData, upErr, udpOut>>
    /\ UNCHANGED nonUpVars

\* The stream's receive side ends: ReceiveDatagram fails once the queue is empty.
StreamReceiveEnds ==
    /\ ~strRcvErr
    /\ strRcvErr' = TRUE
    /\ UNCHANGED <<dgQueue, delivered, upPC, upData, upErr, udpOut>>
    /\ UNCHANGED nonUpVars

DropNever(contextID) == FALSE

\* proxyConnSend, unbound: "if contextID != 0 { continue }".
DropDatagram(contextID) == contextID # 0

\* str.ReceiveDatagram returned data: quicvarint.Parse, then the context ID check.
UplinkReceive ==
    /\ upPC = "recv"
    /\ dgQueue # <<>>
    /\ LET data == Head(dgQueue)
           p == quicvarintParse(data)
       IN /\ dgQueue' = Tail(dgQueue)
          /\ delivered' = Append(delivered, data)
          /\ IF p.err
               THEN /\ upPC' = "exited"
                    /\ upErr' = "parse"
                    /\ UNCHANGED upData
               ELSE IF DropDatagram(p.value)
                 THEN UNCHANGED <<upPC, upErr, upData>>
                 ELSE /\ upPC' = "write"
                      /\ upData' = [data |-> data, n |-> p.n]
                      /\ UNCHANGED upErr
    /\ UNCHANGED <<strRcvErr, udpOut>>
    /\ UNCHANGED nonUpVars

\* str.ReceiveDatagram returned the receive error: proxyConnSend returns it.
UplinkReceiveErr ==
    /\ upPC = "recv"
    /\ dgQueue = <<>>
    /\ strRcvErr
    /\ upPC' = "exited"
    /\ upErr' = "receive"
    /\ UNCHANGED <<dgQueue, strRcvErr, delivered, upData, udpOut>>
    /\ UNCHANGED nonUpVars

WriteWhole(data, n) == data

\* The argument of conn.Write: data[n:].
WriteArg(data, n) == SubSeq(data, n + 1, Len(data))

\* conn.Write(data[n:]) succeeds, or fails and proxyConnSend returns the error.
UplinkWrite ==
    /\ upPC = "write"
    /\ \E ok \in BOOLEAN :
         IF ok
           THEN /\ udpOut' = Append(udpOut, WriteArg(upData.data, upData.n))
                /\ upPC' = "recv"
                /\ UNCHANGED upErr
           ELSE /\ upPC' = "exited"
                /\ upErr' = "write"
                /\ UNCHANGED udpOut
    /\ upData' = [data |-> <<>>, n |-> 0]
    /\ UNCHANGED <<dgQueue, strRcvErr, delivered>>
    /\ UNCHANGED nonUpVars

\* ---------------------------------- downlink: proxyConnReceive, byte level (unbound)

\* b := make([]byte, 1500)
ReadBufSize == 1500

DownInit ==
    /\ udpIn = <<>>
    /\ udpClosed = FALSE
    /\ readPkts = <<>>
    /\ downPC = "read"
    /\ downData = <<>>
    /\ downErr = "none"
    /\ sendCalls = <<>>

\* A UDP packet from the target arrives at the socket.
PacketArrives(p) ==
    /\ Len(readPkts) + Len(udpIn) < MaxPkts
    /\ ~udpClosed
    /\ udpIn' = Append(udpIn, p)
    /\ UNCHANGED <<udpClosed, readPkts, downPC, downData, downErr, sendCalls>>
    /\ UNCHANGED nonDownVars

\* The UDP socket is closed (by the capsule-drain goroutine or by Close).
SocketCloses ==
    /\ ~udpClosed
    /\ udpClosed' = TRUE
    /\ udpIn' = <<>>
    /\ UNCHANGED <<readPkts, downPC, downData, downErr, sendCalls>>
    /\ UNCHANGED nonDownVars

DatagramBare(pkt) == pkt

\* data = append(append(make([]byte, 0, ...), contextIDZero...), b[:n]...)
DatagramFor(pkt) == contextIDZero \o pkt

\* conn.ReadFrom(b) returned n bytes: the datagram is built.
DownlinkRead ==
    /\ downPC = "read"
    /\ ~udpClosed
    /\ udpIn # <<>>
    /\ LET pkt == SubSeq(Head(udpIn), 1, Min(Len(Head(udpIn)), ReadBufSize))
       IN /\ readPkts' = Append(readPkts, pkt)
          /\ downData' = DatagramFor(pkt)
    /\ udpIn' = Tail(udpIn)
    /\ downPC' = "send"
    /\ UNCHANGED <<udpClosed, downErr, sendCalls>>
    /\ UNCHANGED nonDownVars

\* conn.ReadFrom(b) failed: proxyConnReceive returns the error.
DownlinkReadErr ==
    /\ downPC = "read"
    /\ udpClosed
    /\ downPC' = "exited"
    /\ downErr' = "read"
    /\ UNCHANGED <<udpIn, udpClosed, readPkts, downData, sendCalls>>
    /\ UNCHANGED nonDownVars

\* str.SendDatagram(data) succeeds, or fails and proxyConnReceive returns the error.
DownlinkSend ==
    /\ downPC = "send"
    /\ sendCalls' = Append(sendCalls, downData)
    /\ downData' = <<>>
    /\ \E ok \in BOOLEAN :
         IF ok
           THEN downPC' = "read" /\ UNCHANGED downErr
           ELSE downPC' = "exited" /\ downErr' = "send"
    /\ UNCHANGED <<udpIn, udpClosed, readPkts>>
    /\ UNCHANGED nonDownVars

\* --------------------------------------------- proxiedConn: read deadlines

\* Bounds of the deadline model.
MaxTime == 3        \* the clock runs from 1 to MaxTime
MaxCtx == 1         \* read contexts created after the first one
MaxCallbacks == 1   \* timer functions started and not yet run
MaxQueued == 1      \* datagrams queued on the stream

\* Arguments of SetReadDeadline: the zero time, and times up to MaxTime + 1.
Times == 0..(MaxTime + 1)

\* newProxiedConn: readCtx is a fresh context, no deadline, no timer.
ConnInit ==
    /\ now = 1
    /\ deadline = 0
    /\ readCtx = 0
    /\ cancelled = {}
    /\ timerState = "nil"
    /\ timerAt = 0
    /\ callbacks = 0
    /\ deadlineMx = "free"
    /\ connQueue = 0
    /\ rpc = "idle"
    /\ rctx = 0
    /\ rresult = "none"
    /\ rretTime = 0
    /\ rretDeadline = 0
    /\ spc = "idle"
    /\ st = 0
    /\ sOld = 0
    /\ sNow = 0
    /\ extendedFrom = 0
    /\ extendedTo = 0
    /\ expiredOnce = FALSE
    /\ rAfterExpiry = FALSE
    /\ restarted = FALSE
    /\ clearedOld = 0
    /\ cbSpared = FALSE
    /\ pastSet = FALSE
    /\ rAfterPast = FALSE
    /\ connClosed = FALSE
    /\ cpc = "idle"
    /\ closeCalls = 0
    /\ cancelReadCalls = 0
    /\ skpc = "read"
    /\ connPeerFin = FALSE
    /\ connRcvErr = FALSE
    /\ connSendClosed = FALSE
    /\ wresult = "none"

\* Time passes.
Tick ==
    /\ now < MaxTime
    /\ now' = now + 1
    /\ UNCHANGED <<deadline, readCtx, cancelled, timerState, timerAt, callbacks, deadlineMx,
                   connQueue, rpc, rctx, rresult, rretTime, rretDeadline, spc, st, sOld,
                   sNow, extendedFrom, extendedTo, expiredOnce>>
    /\ UNCHANGED <<rAfterExpiry, restarted>>
    /\ UNCHANGED <<cbSpared, clearedOld, pastSet, rAfterPast>>
    /\ UNCHANGED connCloseVars
    /\ UNCHANGED nonConnVars

\* The peer's datagram (context ID 0) arrives on the stream.
DatagramArrives ==
    /\ connQueue < MaxQueued
    /\ connQueue' = connQueue + 1
    /\ UNCHANGED <<now, deadline, readCtx, cancelled, timerState, timerAt, callbacks,
                   deadlineMx, rpc, rctx, rresult, rretTime, rretDeadline, spc, st, sOld,
                   sNow, extendedFrom, extendedTo, expiredOnce>>
    /\ UNCHANGED <<rAfterExpiry, restarted>>
    /\ UNCHANGED <<cbSpared, clearedOld, pastSet, rAfterPast>>
    /\ UNCHANGED connCloseVars
    /\ UNCHANGED nonConnVars

\* The runtime finds the armed timer due: the timer has expired and its
\* function (the func given to time.AfterFunc) is started in a goroutine.
TimerFire ==
    /\ timerState = "armed"
    /\ now >= timerAt
    /\ callbacks < MaxCallbacks
    /\ timerState' = "expired"
    /\ timerAt' = 0
    /\ callbacks' = callbacks + 1
    /\ UNCHANGED <<now, deadline, readCtx, cancelled, deadlineMx, connQueue, rpc,
                   rctx, rresult, rretTime, rretDeadline, spc, st, sOld, sNow,
                   extendedFrom, extendedTo, expiredOnce>>
    /\ UNCHANGED <<rAfterExpiry, restarted>>
    /\ UNCHANGED <<cbSpared, clearedOld, pastSet, rAfterPast>>
    /\ UNCHANGED connCloseVars
    /\ UNCHANGED nonConnVars

\* The timer function without its Before(time.Now()) test.
DeadlinePassedIfNonZero(d, n) == d # 0

\* !c.deadline.IsZero() && c.deadline.Before(time.Now())
DeadlinePassed(d, n) == d # 0 /\ d < n

\* The timer function: under deadlineMx, cancel the read context if the
\* deadline is set and before time.Now().
TimerCallback ==
    /\ callbacks > 0
    /\ deadlineMx = "free"
    /\ callbacks' = callbacks - 1
    /\ cancelled' = IF DeadlinePassed(deadline, now) THEN cancelled \cup {readCtx} ELSE cancelled
    /\ cbSpared' = (deadline > now)
    /\ UNCHANGED <<now, deadline, readCtx, timerState, timerAt, deadlineMx, connQueue, rpc,
                   rctx, rresult, rretTime, rretDeadline, spc, st, sOld, sNow,
                   extendedFrom, extendedTo, expiredOnce>>
    /\ UNCHANGED <<rAfterExpiry, restarted>>
    /\ UNCHANGED <<clearedOld, pastSet, rAfterPast>>
    /\ UNCHANGED connCloseVars
    /\ UNCHANGED nonConnVars

\* ---- ReadFrom

\* The application calls ReadFrom.
ReadFromCall ==
    /\ rpc \in {"idle", "returned"}
    /\ rpc' = "start"
    /\ rresult' = "none"
    /\ rretTime' = 0
    /\ rretDeadline' = 0
    /\ extendedFrom' = 0
    /\ extendedTo' = 0
    /\ UNCHANGED <<now, deadline, readCtx, cancelled, timerState, timerAt, callbacks,
                   deadlineMx, connQueue, rctx, spc, st, sOld, sNow, expiredOnce>>
    /\ rAfterExpiry' = expiredOnce
    /\ restarted' = FALSE
    /\ rAfterPast' = (pastSet /\ spc = "idle")
    /\ UNCHANGED <<cbSpared, clearedOld, pastSet>>
    /\ UNCHANGED connCloseVars
    /\ UNCHANGED nonConnVars

\* start: ctx := c.readCtx, under deadlineMx.
ReadFromLoadCtx ==
    /\ rpc = "start"
    /\ deadlineMx = "free"
    /\ rctx' = readCtx
    /\ rpc' = "recv"
    /\ UNCHANGED <<now, deadline, readCtx, cancelled, timerState, timerAt, callbacks,
                   deadlineMx, connQueue, rresult, rretTime, rretDeadline, spc, st, sOld,
                   sNow, extendedFrom, extendedTo, expiredOnce>>
    /\ UNCHANGED <<rAfterExpiry, restarted>>
    /\ UNCHANGED <<cbSpared, clearedOld, pastSet, rAfterPast>>
    /\ UNCHANGED connCloseVars
    /\ UNCHANGED nonConnVars

\* c.str.ReceiveDatagram(ctx) returns a queued datagram (the HTTP/3 stream
\* looks at its queue before it waits on ctx.Done()); ReadFrom returns it.
ReceiveData ==
    /\ rpc = "recv"
    /\ connQueue > 0
    /\ connQueue' = connQueue - 1
    /\ rresult' = "data"
    /\ rretTime' = now
    /\ rretDeadline' = deadline
    /\ rpc' = "returned"
    /\ rctx' = 0
    /\ UNCHANGED <<now, deadline, readCtx, cancelled, timerState, timerAt, callbacks,
                   deadlineMx, spc, st, sOld, sNow, extendedFrom, extendedTo,
                   expiredOnce>>
    /\ UNCHANGED <<rAfterExpiry, restarted>>
    /\ UNCHANGED <<cbSpared, clearedOld, pastSet, rAfterPast>>
    /\ UNCHANGED connCloseVars
    /\ UNCHANGED nonConnVars

\* c.str.ReceiveDatagram(ctx) returns context.Canceled.
ReceiveCanceled ==
    /\ rpc = "recv"
    /\ connQueue = 0
    /\ ~connRcvErr
    /\ rctx \in cancelled
    /\ rpc' = "check"
    /\ UNCHANGED <<now, deadline, readCtx, cancelled, timerState, timerAt, callbacks,
                   deadlineMx, connQueue, rctx, rresult, rretTime, rretDeadline, spc, st,
                   sOld, sNow, extendedFrom, extendedTo, expiredOnce>>
    /\ UNCHANGED <<rAfterExpiry, restarted>>
    /\ UNCHANGED <<cbSpared, clearedOld, pastSet, rAfterPast>>
    /\ UNCHANGED connCloseVars
    /\ UNCHANGED nonConnVars

RestartNever(n, d) == FALSE

\* restart := time.Now().Before(c.deadline)
Restart(n, d) == n < d

\* After context.Canceled: under deadlineMx, go back to start if a later
\* deadline has been set, else return os.ErrDeadlineExceeded.
ReadFromRecheck ==
    /\ rpc = "check"
    /\ deadlineMx = "free"
    /\ rctx' = 0
    /\ IF Restart(now, deadline)
         THEN /\ rpc' = "start"
              /\ UNCHANGED <<rresult, rretTime, rretDeadline, expiredOnce>>
         ELSE /\ rpc' = "returned"
              /\ rresult' = "deadline"
              /\ rretTime' = now
              /\ rretDeadline' = deadline
              /\ expiredOnce' = TRUE
    /\ UNCHANGED <<now, deadline, readCtx, cancelled, timerState, timerAt, callbacks,
                   deadlineMx, connQueue, spc, st, sOld, sNow, extendedFrom,
                   extendedTo>>
    /\ restarted' = (restarted \/ (Restart(now, deadline) /\ extendedTo # 0))
    /\ UNCHANGED rAfterExpiry
    /\ UNCHANGED <<cbSpared, clearedOld, pastSet, rAfterPast>>
    /\ UNCHANGED connCloseVars
    /\ UNCHANGED nonConnVars

\* ---- SetReadDeadline

\* The call will replace the read context: a timer exists, t is in the future
\* and the old deadline has not passed.
Renews(t) == timerState # "nil" /\ t # 0 /\ t > now /\ now < deadline

\* The call extends the pending deadline of a ReadFrom in progress.
Extends(t) == rpc \in {"start", "recv", "check"} /\ deadline # 0 /\ now < deadline /\ t > deadline

\* SetReadDeadline(t): deadlineMx.Lock(); oldDeadline := c.deadline;
\* c.deadline = t; now := time.Now().
SetReadDeadlineLock(t) ==
    /\ spc = "idle"
    /\ deadlineMx = "free"
    /\ Renews(t) => readCtx < MaxCtx
    /\ deadlineMx' = "SetReadDeadline"
    /\ sOld' = deadline
    /\ deadline' = t
    /\ sNow' = now
    /\ st' = t
    /\ spc' = "locked"
    /\ extendedFrom' = IF Extends(t) THEN deadline ELSE 0
    /\ extendedTo' = IF Extends(t) THEN t ELSE 0
    /\ UNCHANGED <<now, readCtx, cancelled, timerState, timerAt, callbacks, connQueue, rpc,
                   rctx, rresult, rretTime, rretDeadline, expiredOnce>>
    /\ restarted' = FALSE
    /\ clearedOld' = IF t = 0 /\ now < deadline THEN deadline ELSE 0
    /\ cbSpared' = FALSE
    /\ pastSet' = (t # 0 /\ ~(t > now))
    /\ rAfterPast' = FALSE
    /\ UNCHANGED rAfterExpiry
    /\ UNCHANGED connCloseVars
    /\ UNCHANGED nonConnVars

ExpiredNever(t, n) == FALSE

\* !t.After(now)
Expired(t, n) == ~(t > n)

\* The rest of SetReadDeadline, still under deadlineMx.
\*   t zero: Stop the timer; when Stop reports false (the timer expired or was
\*     stopped before) receive from readDeadlineTimer.C, which is nil for a
\*     timer made by time.AfterFunc: the call blocks forever, holding the lock.
\*   t not after now: cancel the read context.
\*   else: Reset the timer (after replacing the read context when the old
\*     deadline had not passed), or create it with time.AfterFunc.
SetReadDeadlineBody ==
    /\ spc = "locked"
    /\ CASE st = 0 /\ timerState \in {"expired", "stopped"} ->
              /\ spc' = "blocked"
              /\ UNCHANGED <<deadlineMx, timerState, timerAt, readCtx, cancelled>>
         [] st = 0 /\ timerState \in {"nil", "armed"} ->
              /\ timerState' = IF timerState = "armed" THEN "stopped" ELSE timerState
              /\ timerAt' = 0
              /\ spc' = "idle"
              /\ deadlineMx' = "free"
              /\ UNCHANGED <<readCtx, cancelled>>
         [] st # 0 /\ Expired(st, sNow) ->
              /\ cancelled' = cancelled \cup {readCtx}
              /\ spc' = "idle"
              /\ deadlineMx' = "free"
              /\ UNCHANGED <<timerState, timerAt, readCtx>>
         [] st # 0 /\ ~Expired(st, sNow) /\ timerState # "nil" ->
              /\ IF sNow < sOld
                   THEN /\ cancelled' = cancelled \cup {readCtx}
                        /\ readCtx' = readCtx + 1
                   ELSE UNCHANGED <<cancelled, readCtx>>
              /\ timerState' = "armed"
              /\ timerAt' = now + (st - sNow)
              /\ spc' = "idle"
              /\ deadlineMx' = "free"
         [] OTHER ->
              /\ timerState' = "armed"
              /\ timerAt' = now + (st - sNow)
              /\ spc' = "idle"
              /\ deadlineMx' = "free"
              /\ UNCHANGED <<readCtx, cancelled>>
    /\ IF spc' = "idle"
         THEN st' = 0 /\ sOld' = 0 /\ sNow' = 0
         ELSE UNCHANGED <<st, sOld, sNow>>
    /\ UNCHANGED <<now, deadline, callbacks, connQueue, rpc, rctx, rresult, rretTime,
                   rretDeadline, extendedFrom, extendedTo, expiredOnce>>
    /\ UNCHANGED <<rAfterExpiry, restarted>>
    /\ UNCHANGED <<cbSpared, clearedOld, pastSet, rAfterPast>>
    /\ UNCHANGED connCloseVars
    /\ UNCHANGED nonConnVars

\* ---- Close, the capsule goroutine, WriteTo

MaxCloses == 2      \* Close calls

connReadVars == <<rpc, rctx, rresult, rretTime, rretDeadline, expiredOnce, rAfterExpiry,
                  restarted, rAfterPast>>
connSetVars == <<spc, st, sOld, sNow, extendedFrom, extendedTo, clearedOld, cbSpared,
                 pastSet>>
connClockVars == <<now, deadline, readCtx, callbacks, deadlineMx, connQueue>>

\* The peer (the proxy) closes its send direction of the request stream.
ConnPeerFin ==
    /\ ~connPeerFin
    /\ connPeerFin' = TRUE
    /\ UNCHANGED <<connClosed, cpc, closeCalls, cancelReadCalls, skpc, connRcvErr,
                   connSendClosed, wresult>>
    /\ UNCHANGED <<connReadVars, connSetVars, connClockVars, cancelled, timerState, timerAt>>
    /\ UNCHANGED nonConnVars

\* The goroutine of newProxiedConn: skipCapsules returns, with io.EOF once the
\* peer closed the stream or with the error of the cancelled read; the read
\* side of the stream has ended.
SkipCapsulesReturns ==
    /\ skpc = "read"
    /\ connPeerFin \/ connRcvErr
    /\ skpc' = "close"
    /\ connRcvErr' = TRUE
    /\ UNCHANGED <<connClosed, cpc, closeCalls, cancelReadCalls, connPeerFin,
                   connSendClosed, wresult>>
    /\ UNCHANGED <<connReadVars, connSetVars, connClockVars, cancelled, timerState, timerAt>>
    /\ UNCHANGED nonConnVars

SkipCapsulesNoClose ==
    /\ skpc = "close"
    /\ skpc' = "done"
    /\ UNCHANGED <<connClosed, cpc, closeCalls, cancelReadCalls, connPeerFin,
                   connRcvErr, connSendClosed, wresult>>
    /\ UNCHANGED <<connReadVars, connSetVars, connClockVars, cancelled, timerState, timerAt>>
    /\ UNCHANGED nonConnVars

\* The goroutine of newProxiedConn: str.Close(), then close(c.readDone).
SkipCapsulesClose ==
    /\ skpc = "close"
    /\ skpc' = "done"
    /\ connSendClosed' = TRUE
    /\ UNCHANGED <<connClosed, cpc, closeCalls, cancelReadCalls, connPeerFin,
                   connRcvErr, wresult>>
    /\ UNCHANGED <<connReadVars, connSetVars, connClockVars, cancelled, timerState, timerAt>>
    /\ UNCHANGED nonConnVars

\* c.str.ReceiveDatagram(ctx) returns the stream's receive error: no datagram
\* is queued and the read side has ended. ReadFrom returns that error.
ReceiveErr ==
    /\ rpc = "recv"
    /\ connQueue = 0
    /\ connRcvErr
    /\ rpc' = "returned"
    /\ rresult' = "error"
    /\ rretTime' = now
    /\ rretDeadline' = deadline
    /\ rctx' = 0
    /\ UNCHANGED <<expiredOnce, rAfterExpiry, restarted, rAfterPast>>
    /\ UNCHANGED <<connSetVars, connClockVars, cancelled, timerState, timerAt>>
    /\ UNCHANGED connCloseVars
    /\ UNCHANGED nonConnVars

\* WriteTo: SendDatagram(contextIDZero || p) fails once str.Close() was called.
WriteTo ==
    /\ wresult' = IF connSendClosed THEN "error" ELSE "ok"
    /\ UNCHANGED <<connClosed, cpc, closeCalls, cancelReadCalls, skpc, connPeerFin,
                   connRcvErr, connSendClosed>>
    /\ UNCHANGED <<connReadVars, connSetVars, connClockVars, cancelled, timerState, timerAt>>
    /\ UNCHANGED nonConnVars

\* Close is called: c.closed.Store(true). There is no test of the flag.
CloseCall ==
    /\ cpc = "idle"
    /\ closeCalls < MaxCloses
    /\ closeCalls' = closeCalls + 1
    /\ connClosed' = TRUE
    /\ cpc' = "begun"
    /\ UNCHANGED <<cancelReadCalls, skpc, connPeerFin, connRcvErr, connSendClosed, wresult>>
    /\ UNCHANGED <<connReadVars, connSetVars, connClockVars, cancelled, timerState, timerAt>>
    /\ UNCHANGED nonConnVars

\* c.str.CancelRead(...); err := c.str.Close()
CloseStream ==
    /\ cpc = "begun"
    /\ cancelReadCalls' = cancelReadCalls + 1
    /\ connRcvErr' = TRUE
    /\ connSendClosed' = TRUE
    /\ cpc' = "wait"
    /\ UNCHANGED <<connClosed, closeCalls, skpc, connPeerFin, wresult>>
    /\ UNCHANGED <<connReadVars, connSetVars, connClockVars, cancelled, timerState, timerAt>>
    /\ UNCHANGED nonConnVars

\* <-c.readDone; c.readCtxCancel()
CloseCancelCtx ==
    /\ cpc = "wait"
    /\ skpc = "done"
    /\ cancelled' = cancelled \cup {readCtx}
    /\ cpc' = "lock"
    /\ UNCHANGED <<connClosed, closeCalls, cancelReadCalls, skpc, connPeerFin, connRcvErr,
                   connSendClosed, wresult>>
    /\ UNCHANGED <<connReadVars, connSetVars, connClockVars, timerState, timerAt>>
    /\ UNCHANGED nonConnVars

\* c.deadlineMx.Lock(); stop the timer if there is one; Unlock; return.
CloseStopTimer ==
    /\ cpc = "lock"
    /\ deadlineMx = "free"
    /\ timerState' = IF timerState = "armed" THEN "stopped" ELSE timerState
    /\ timerAt' = 0
    /\ cpc' = "idle"
    /\ UNCHANGED <<connClosed, closeCalls, cancelReadCalls, skpc, connPeerFin, connRcvErr,
                   connSendClosed, wresult>>
    /\ UNCHANGED <<connReadVars, connSetVars, connClockVars, cancelled>>
    /\ UNCHANGED nonConnVars

\* ------------------------------------------ proxiedConn.ReadFrom, byte level

MaxConnDgLen == 3   \* longest HTTP datagram queued on the client's stream
MaxConnDgrams == 2  \* datagrams queued on the client's stream
MaxBuf == 2         \* longest buffer given to ReadFrom

\* c.remoteAddr
remoteAddr == "remote"

CrInit ==
    /\ crQueue = <<>>
    /\ crDelivered = <<>>
    /\ crPC = "idle"
    /\ crBuf = 0
    /\ crReturns = <<>>

\* The proxy's HTTP datagram arrives; the stream queues it.
ConnDatagramArrives(d) ==
    /\ Len(crDelivered) + Len(crQueue) < MaxConnDgrams
    /\ crQueue' = Append(crQueue, d)
    /\ UNCHANGED <<crDelivered, crPC, crBuf, crReturns>>
    /\ UNCHANGED nonCrVars

\* The application calls ReadFrom(b) with len(b) = m.
ConnReadFrom(m) ==
    /\ crPC = "idle"
    /\ crPC' = "recv"
    /\ crBuf' = m
    /\ UNCHANGED <<crQueue, crDelivered, crReturns>>
    /\ UNCHANGED nonCrVars

ConnDropNever(contextID) == FALSE

\* ReadFrom: "if contextID != 0 { goto start }".
ConnDrop(contextID) == contextID # 0

CopyAll(m, src) == src

\* copy(b, data[n:]) with len(b) = m: the bytes that end up in b.
Copy(m, src) == SubSeq(src, 1, Min(m, Len(src)))

\* c.str.ReceiveDatagram returned data: quicvarint.Parse, the context ID check,
\* then the copy into b.
ConnReadDatagram ==
    /\ crPC = "recv"
    /\ crQueue # <<>>
    /\ LET data == Head(crQueue)
           p == quicvarintParse(data)
           out == Copy(crBuf, SubSeq(data, p.n + 1, Len(data)))
       IN /\ crQueue' = Tail(crQueue)
          /\ crDelivered' = Append(crDelivered, data)
          /\ IF p.err
               THEN /\ crPC' = "idle"
                    /\ crReturns' = Append(crReturns, [n |-> 0, bytes |-> <<>>, addr |-> "nil",
                                                       err |-> "malformed", m |-> crBuf])
                    /\ crBuf' = 0
               ELSE IF ConnDrop(p.value)
                 THEN UNCHANGED <<crPC, crReturns, crBuf>>
                 ELSE /\ crPC' = "idle"
                      /\ crReturns' = Append(crReturns, [n |-> Len(out), bytes |-> out,
                                                         addr |-> remoteAddr, err |-> "none",
                                                         m |-> crBuf])
                      /\ crBuf' = 0
    /\ UNCHANGED nonCrVars

\* ---------------------------- client, proxy, echoing target, proxy, client

MaxRtLen == 3       \* longest short payload given to WriteTo

\* The packet size the client dials the proxy with when no QUICConfig is given.
defaultInitialPacketSize == 1350

\* The payloads given to WriteTo: the short ones, and payloads as long as the
\* proxy's read buffer (one byte value repeated).
RtPayloads == SeqsUpTo(Bytes, MaxRtLen) \cup {[i \in 1..ReadBufSize |-> b] : b \in Bytes}

RtInit ==
    /\ rtPC = "idle"
    /\ rtPayload = <<>>
    /\ rtWire = <<>>
    /\ rtTarget = <<>>
    /\ rtRead = <<>>
    /\ rtErr = "none"

\* str.SendDatagram(data) fails with a DatagramTooLargeError: an HTTP datagram
\* travels in one QUIC packet, it is never fragmented.
TooLarge(data) == Len(data) > defaultInitialPacketSize

\* proxiedConn.WriteTo(p): SendDatagram(contextIDZero || p).
RtWriteTo(p) ==
    /\ rtPC = "idle"
    /\ rtPayload' = p
    /\ LET data == contextIDZero \o p
       IN IF TooLarge(data)
            THEN /\ rtPC' = "failed"
                 /\ rtErr' = "WriteTo"
                 /\ UNCHANGED rtWire
            ELSE /\ rtPC' = "uplink"
                 /\ rtWire' = data
                 /\ UNCHANGED rtErr
    /\ UNCHANGED <<rtTarget, rtRead>>
    /\ UNCHANGED nonRtVars

\* The proxy's uplink: ReceiveDatagram, quicvarint.Parse, conn.Write(data[n:]).
RtProxyUplink ==
    /\ rtPC = "uplink"
    /\ LET p == quicvarintParse(rtWire)
       IN IF p.err \/ DropDatagram(p.value)
            THEN /\ rtPC' = "failed"
                 /\ rtErr' = "uplink"
                 /\ UNCHANGED <<rtWire, rtTarget>>
            ELSE /\ rtPC' = "target"
                 /\ rtWire' = WriteArg(rtWire, p.n)
                 /\ rtTarget' = Append(rtTarget, WriteArg(rtWire, p.n))
                 /\ UNCHANGED rtErr
    /\ UNCHANGED <<rtPayload, rtRead>>
    /\ UNCHANGED nonRtVars

\* The target echoes the packet.
RtEcho ==
    /\ rtPC = "target"
    /\ rtPC' = "downlink"
    /\ UNCHANGED <<rtPayload, rtWire, rtTarget, rtRead, rtErr>>
    /\ UNCHANGED nonRtVars

\* The proxy's downlink: conn.ReadFrom(b), SendDatagram(contextIDZero || b[:n]).
RtProxyDownlink ==
    /\ rtPC = "downlink"
    /\ LET data == DatagramFor(SubSeq(rtWire, 1, Min(ReadBufSize, Len(rtWire))))
       IN IF TooLarge(data)
            THEN /\ rtPC' = "failed"
                 /\ rtErr' = "downlink"
                 /\ UNCHANGED rtWire
            ELSE /\ rtPC' = "client"
                 /\ rtWire' = data
                 /\ UNCHANGED rtErr
    /\ UNCHANGED <<rtPayload, rtTarget, rtRead>>
    /\ UNCHANGED nonRtVars

\* proxiedConn.ReadFrom(b) with len(b) = m.
RtReadFrom(m) ==
    /\ rtPC = "client"
    /\ LET p == quicvarintParse(rtWire)
       IN IF p.err \/ ConnDrop(p.value)
            THEN /\ rtPC' = "failed"
                 /\ rtErr' = "ReadFrom"
                 /\ UNCHANGED rtRead
            ELSE /\ rtPC' = "done"
                 /\ rtRead' = Copy(m, SubSeq(rtWire, p.n + 1, Len(rtWire)))
                 /\ UNCHANGED rtErr
    /\ rtWire' = <<>>
    /\ UNCHANGED <<rtPayload, rtTarget>>
    /\ UNCHANGED nonRtVars

\* The application goes on to the next payload.
RtNext ==
    /\ rtPC \in {"done", "failed"}
    /\ rtPC' = "idle"
    /\ rtPayload' = <<>>
    /\ rtWire' = <<>>
    /\ rtTarget' = <<>>
    /\ rtRead' = <<>>
    /\ rtErr' = "none"
    /\ UNCHANGED nonRtVars

\* ------------------------------------------------------- Client (src/client.go)

NumDials == 3       \* Dial / DialAddr calls on the Client

Dials == 1..NumDials

\* Response statuses the proxy answers with.
Statuses == {199, 200, 299, 300, 503}

NoSelect == [sel |-> "none", extendedConnect |-> FALSE, datagrams |-> FALSE]

ClInit ==
    /\ dialOnce = "fresh"
    /\ dialErr = FALSE
    /\ clConn = "nil"
    /\ rtSet = FALSE
    /\ quicDials = 0
    /\ dpc = [f \in Dials |-> "idle"]
    /\ dret = [f \in Dials |-> "none"]
    /\ dconn = [f \in Dials |-> 0]
    /\ dstreams = [f \in Dials |-> 0]
    /\ clpc = "idle"
    /\ closeWaited = FALSE
    /\ dsel = [f \in Dials |-> NoSelect]
    /\ dsent = [f \in Dials |-> 0]
    /\ dstatus = [f \in Dials |-> 0]
    /\ drsp = [f \in Dials |-> 0]

\* The call returns r.
DialReturns(f, r) ==
    /\ dpc' = [dpc EXCEPT ![f] = "returned"]
    /\ dret' = [dret EXCEPT ![f] = r]

\* Dial / DialAddr up to c.dialOnce.Do: no template, a template that does not
\* expand or a URI that does not parse end the call.
ClDial(f) ==
    /\ dpc[f] = "idle"
    /\ \E ok \in BOOLEAN :
         IF ok THEN dpc' = [dpc EXCEPT ![f] = "once"] /\ UNCHANGED dret
               ELSE DialReturns(f, "error")
    /\ UNCHANGED <<dialOnce, dialErr, clConn, rtSet, quicDials, dconn, dstreams, clpc,
                   closeWaited>>
    /\ UNCHANGED clReqVars
    /\ UNCHANGED nonClVars

MayRunAlways(o) == o # "running"

\* sync.Once.Do runs its function when no Do call has run one before.
MayRun(o) == o = "fresh"

\* c.dialOnce.Do(func() {...}): this call runs the function.
ClOnceEnter(f) ==
    /\ dpc[f] = "once"
    /\ MayRun(dialOnce)
    /\ dialOnce' = "running"
    /\ dpc' = [dpc EXCEPT ![f] = "dialing"]
    /\ UNCHANGED <<dialErr, clConn, rtSet, quicDials, dret, dconn, dstreams, clpc, closeWaited>>
    /\ UNCHANGED clReqVars
    /\ UNCHANGED nonClVars

\* The function given to dialOnce.Do: datagrams not enabled in QUICConfig
\* (dialErr, no dial), or quic.DialAddr, which fails (dialErr) or gives the
\* connection (c.conn, c.rt).
ClQuicDial(f) ==
    /\ dpc[f] = "dialing"
    /\ \E outcome \in {"config", "failed", "connected"} :
         /\ quicDials' = IF outcome = "config" THEN quicDials ELSE quicDials + 1
         /\ dialErr' = (dialErr \/ outcome # "connected")
         /\ clConn' = IF outcome = "connected" THEN "open" ELSE clConn
         /\ rtSet' = (rtSet \/ outcome = "connected")
    /\ dialOnce' = "done"
    /\ dpc' = [dpc EXCEPT ![f] = "check"]
    /\ UNCHANGED <<dret, dconn, dstreams, clpc, closeWaited>>
    /\ UNCHANGED clReqVars
    /\ UNCHANGED nonClVars

\* c.dialOnce.Do returns without running the function: a Do call has finished.
ClOnceSkip(f) ==
    /\ dpc[f] = "once"
    /\ dialOnce = "done"
    /\ dpc' = [dpc EXCEPT ![f] = "check"]
    /\ UNCHANGED <<dialOnce, dialErr, clConn, rtSet, quicDials, dret, dconn, dstreams, clpc,
                   closeWaited>>
    /\ UNCHANGED clReqVars
    /\ UNCHANGED nonClVars

DialErrIgnored(e) == FALSE

\* c.dialErr != nil
DialErrSet(e) == e

\* if c.dialErr != nil { return }; conn := c.rt.Start(), a nil dereference
\* when c.rt was never set.
ClStart(f) ==
    /\ dpc[f] = "check"
    /\ IF DialErrSet(dialErr) THEN DialReturns(f, "dialErr") /\ UNCHANGED dconn
       ELSE IF ~rtSet THEN DialReturns(f, "panic") /\ UNCHANGED dconn
       ELSE /\ dpc' = [dpc EXCEPT ![f] = "settings"]
            /\ dconn' = [dconn EXCEPT ![f] = quicDials]
            /\ UNCHANGED dret
    /\ UNCHANGED <<dialOnce, dialErr, clConn, rtSet, quicDials, dstreams, clpc, closeWaited>>
    /\ UNCHANGED clReqVars
    /\ UNCHANGED nonClVars

SettingsOkWithoutDatagrams(sel, ext, dg) == sel = "settings" /\ ext

\* dial goes on to OpenRequestStream: the select took ReceivedSettings and
\* neither "!settings.EnableExtendedConnect" nor "!settings.EnableDatagrams".
SettingsOk(sel, ext, dg) == sel = "settings" /\ ~(~ext) /\ ~(~dg)

\* select: ctx.Done(), conn.Context().Done() or conn.ReceivedSettings(); then
\* the two checks of conn.Settings().
ClSettings(f) ==
    /\ dpc[f] = "settings"
    /\ \E sel \in {"ctx", "conn", "settings"}, ext, dg \in BOOLEAN :
         /\ sel # "settings" => (~ext /\ ~dg)
         /\ dsel' = [dsel EXCEPT ![f] = [sel |-> sel, extendedConnect |-> ext, datagrams |-> dg]]
         /\ IF SettingsOk(sel, ext, dg)
              THEN dpc' = [dpc EXCEPT ![f] = "open"] /\ UNCHANGED dret
              ELSE DialReturns(f, "error")
    /\ UNCHANGED <<dialOnce, dialErr, clConn, rtSet, quicDials, dconn, dstreams, clpc,
                   closeWaited, dsent, dstatus, drsp>>
    /\ UNCHANGED nonClVars

\* rstr, err := c.rt.OpenRequestStream(ctx)
ClOpenRequestStream(f) ==
    /\ dpc[f] = "open"
    /\ \E ok \in BOOLEAN :
         IF ok /\ clConn = "open"
           THEN /\ dpc' = [dpc EXCEPT ![f] = "request"]
                /\ dstreams' = [dstreams EXCEPT ![f] = @ + 1]
                /\ UNCHANGED dret
           ELSE DialReturns(f, "error") /\ UNCHANGED dstreams
    /\ UNCHANGED <<dialOnce, dialErr, clConn, rtSet, quicDials, dconn, clpc, closeWaited>>
    /\ UNCHANGED clReqVars
    /\ UNCHANGED nonClVars

\* rstr.SendRequestHeader(...)
ClRequest(f) ==
    /\ dpc[f] = "request"
    /\ \E ok \in BOOLEAN :
         IF ok /\ clConn = "open"
           THEN /\ dpc' = [dpc EXCEPT ![f] = "response"]
                /\ dsent' = [dsent EXCEPT ![f] = @ + 1]
                /\ UNCHANGED dret
           ELSE DialReturns(f, "error") /\ UNCHANGED dsent
    /\ UNCHANGED <<dialOnce, dialErr, clConn, rtSet, quicDials, dconn, dstreams, clpc,
                   closeWaited, dsel, dstatus, drsp>>
    /\ UNCHANGED nonClVars

StatusIs200(code) == code = 200

\* The negation of "rsp.StatusCode < 200 || rsp.StatusCode > 299".
StatusOk(code) == ~(code < 200 \/ code > 299)

\* rsp, err := rstr.ReadResponse(), the code check, newProxiedConn.
ClResponse(f) ==
    /\ dpc[f] = "response"
    /\ \/ /\ DialReturns(f, "error")
          /\ UNCHANGED <<dstatus, drsp>>
       \/ \E code \in Statuses :
            /\ dstatus' = [dstatus EXCEPT ![f] = code]
            /\ drsp' = [drsp EXCEPT ![f] = code]
            /\ DialReturns(f, IF StatusOk(code) THEN "conn" ELSE "error")
    /\ UNCHANGED <<dialOnce, dialErr, clConn, rtSet, quicDials, dconn, dstreams, clpc,
                   closeWaited, dsel, dsent>>
    /\ UNCHANGED nonClVars

\* Client.Close is called.
ClCloseCall ==
    /\ clpc = "idle"
    /\ clpc' = "once"
    /\ closeWaited' = (dialOnce = "running")
    /\ UNCHANGED <<dialOnce, dialErr, clConn, rtSet, quicDials, dpc, dret, dconn, dstreams>>
    /\ UNCHANGED clReqVars
    /\ UNCHANGED nonClVars

ClosePassesAlways(o) == TRUE

\* c.dialOnce.Do(func() {}) returns: no Do call is running its function.
ClosePasses(o) == o # "running"

\* c.dialOnce.Do(func() {}): runs the empty function when no Do call ran one
\* before, else waits for the running one.
ClCloseOnce ==
    /\ clpc = "once"
    /\ ClosePasses(dialOnce)
    /\ dialOnce' = IF dialOnce = "fresh" THEN "done" ELSE dialOnce
    /\ clpc' = "conn"
    /\ UNCHANGED <<dialErr, clConn, rtSet, quicDials, dpc, dret, dconn, dstreams, closeWaited>>
    /\ UNCHANGED clReqVars
    /\ UNCHANGED nonClVars

\* if c.conn != nil { return c.conn.CloseWithError(0, "") }; return nil
ClCloseConn ==
    /\ clpc = "conn"
    /\ clConn' = IF clConn = "nil" THEN "nil" ELSE "closed"
    /\ clpc' = "returned"
    /\ UNCHANGED <<dialOnce, dialErr, rtSet, quicDials, dpc, dret, dconn, dstreams, closeWaited>>
    /\ UNCHANGED clReqVars
    /\ UNCHANGED nonClVars

\* ------------------------------------------------------------ specifications

CallStep(f) == ProxyEntry(f) \/ ProxyDial(f) \/ CheckClosed(f) \/ Upgrade(f)
                 \/ Register(f) \/ Spawn(f) \/ Return(f)
UpStep(f) == UpRecvErr(f) \/ UpWrite(f) \/ UpClose(f)
DownStep(f) == DownReadClosed(f) \/ DownSend(f) \/ DownClose(f)
CapStep(f) == CapRead(f) \/ CapClose(f)
CloseStep == CloseLock \/ (\E f \in Flows : CloseEntry(f)) \/ CloseUnlock \/ CloseWait

\* ------------------------------- bound flows and the compression table
NumBound == 2       \* ProxyListen calls on the Proxy
MaxContextID == 2   \* largest context ID in a capsule or datagram

BoundFlows == 1..NumBound
ContextIDs == 0..MaxContextID
Addrs == {"a", "b"}      \* UDP addresses
NilAddr == "nil"         \* a nil *net.UDPAddr
NoAddr == "none"         \* no entry in the compressions map
NilID == -1              \* a nil uncompressedContextID

BdInit ==
    /\ ctTable = <<>>
    /\ bdpc = [f \in BoundFlows |-> "idle"]
    /\ ctOwn = [f \in BoundFlows |-> {}]
    /\ ctErr = FALSE
    /\ ctReply = <<>>
    /\ ctSent = [flow |-> 0, id |-> 0, to |-> NoAddr]
    /\ ctRecv = [flow |-> 0, id |-> 0]

newCompressionTable(isForClient) ==
    [isForClient |-> isForClient, unc |-> NilID, comp |-> [c \in ContextIDs |-> NoAddr]]

\* The context IDs lookupAddr can return for addr: a compressed context of
\* that address (the map is ranged over in no fixed order), else the
\* uncompressed context; {} when not found.
lookupAddr(t, addr) ==
    LET compressed == {c \in ContextIDs : t.comp[c] = addr}
    IN IF compressed # {} THEN compressed
       ELSE IF t.unc # NilID THEN {t.unc}
       ELSE {}

lookupContextID(t, contextID) ==
    IF t.comp[contextID] # NoAddr THEN [addr |-> t.comp[contextID], found |-> TRUE]
    ELSE IF t.unc # NilID /\ t.unc = contextID THEN [addr |-> NilAddr, found |-> TRUE]
    ELSE [addr |-> NilAddr, found |-> FALSE]

\* The capsule's context ID is one this side assigns: even on a client, odd
\* on a proxy.
InitiatedByUs(t, contextID) ==
    IF t.isForClient THEN contextID % 2 = 0 ELSE contextID % 2 # 0

\* handleAssignmentCapsule: the table afterwards and whether an error is
\* returned.
handleAssignmentCapsule(t, contextID, addr) ==
    IF InitiatedByUs(t, contextID) THEN [table |-> t, err |-> FALSE]
    ELSE IF addr = NilAddr
         THEN IF t.unc # NilID
                THEN [table |-> t, err |-> TRUE]
                ELSE [table |-> [t EXCEPT !.unc = contextID], err |-> FALSE]
    ELSE IF t.comp[contextID] # NoAddr
         THEN [table |-> t, err |-> TRUE]
         ELSE [table |-> [t EXCEPT !.comp[contextID] = addr], err |-> FALSE]

\* ProxyListen: net.ListenUDP, s.compressionTable = newCompressionTable(false),
\* then proxyConnectedSocket, which refuses the flow when the proxy is closed.
ProxyListen(f) ==
    /\ bdpc[f] = "idle"
    /\ \E outcome \in {"listen failed", "closed", "ok"} :
         /\ ctTable' = IF outcome = "listen failed" THEN ctTable
                       ELSE <<newCompressionTable(FALSE)>>
         /\ bdpc' = [bdpc EXCEPT ![f] = IF outcome = "ok" THEN "running" ELSE "ended"]
    /\ UNCHANGED <<ctOwn, ctErr, ctReply, ctSent, ctRecv>>
    /\ UNCHANGED nonBdVars

\* processCapsule of a bound flow, one capsule: a COMPRESSION_ASSIGN with a
\* non-zero context ID goes to s.compressionTable.handleAssignmentCapsule and
\* is written back when that returns no error; every other capsule is logged.
BdProcessCapsule(f) ==
    /\ bdpc[f] = "running"
    /\ \E ct \in {"assign", "close", "other"}, contextID \in ContextIDs,
          addr \in Addrs \cup {NilAddr} :
         IF ct = "assign" /\ contextID # 0
           THEN LET r == handleAssignmentCapsule(ctTable[1], contextID, addr)
                IN /\ ctTable' = <<r.table>>
                   /\ ctErr' = r.err
                   /\ ctReply' = IF r.err THEN ctReply ELSE <<f, contextID, addr>>
                   /\ ctOwn' = IF r.table # ctTable[1]
                                 THEN [ctOwn EXCEPT ![f] = @ \cup {<<contextID, addr>>}]
                                 ELSE ctOwn
           ELSE UNCHANGED <<ctTable, ctErr, ctReply, ctOwn>>
    /\ UNCHANGED <<bdpc, ctSent, ctRecv>>
    /\ UNCHANGED nonBdVars

\* proxyConnSend of a bound flow, one datagram: context ID 0 and context IDs
\* s.compressionTable does not hold are dropped; else the payload is written
\* to the context's address, or to the address in an uncompressed datagram.
BdConnSend(f) ==
    /\ bdpc[f] = "running"
    /\ \E contextID \in ContextIDs :
         LET r == lookupContextID(ctTable[1], contextID)
         IN IF contextID # 0 /\ r.found
              THEN ctSent' = [flow |-> f, id |-> contextID,
                              to |-> IF r.addr = NilAddr THEN "uncompressed" ELSE r.addr]
              ELSE UNCHANGED ctSent
    /\ UNCHANGED <<ctTable, bdpc, ctOwn, ctErr, ctReply, ctRecv>>
    /\ UNCHANGED nonBdVars

\* proxyConnReceive of a bound flow, one packet read from the socket: it is
\* sent on the stream under the context ID lookupAddr gives, or dropped.
BdConnReceive(f) ==
    /\ bdpc[f] = "running"
    /\ \E addr \in Addrs :
         \/ /\ lookupAddr(ctTable[1], addr) = {}
            /\ UNCHANGED ctRecv
         \/ \E contextID \in lookupAddr(ctTable[1], addr) :
              ctRecv' = [flow |-> f, id |-> contextID]
    /\ UNCHANGED <<ctTable, bdpc, ctOwn, ctErr, ctReply, ctSent>>
    /\ UNCHANGED nonBdVars

\* A bound flow ends: its goroutines have returned and ProxyListen returns.
BdEnd(f) ==
    /\ bdpc[f] = "running"
    /\ bdpc' = [bdpc EXCEPT ![f] = "ended"]
    /\ UNCHANGED <<ctTable, ctOwn, ctErr, ctReply, ctSent, ctRecv>>
    /\ UNCHANGED nonBdVars

\* ------------------------------------------------ the typed capsule parsers
MaxEntries == 2     \* entries a capsule payload is cut from

capsuleTypeAddressAssign == 1
capsuleTypeAddressRequest == 2
capsuleTypeRouteAdvertisement == 3

IPv6Zero == [i \in 1..16 |-> 0]

\* Entries of ADDRESS_ASSIGN / ADDRESS_REQUEST, well-formed and not: request ID
\* (a varint of one or two bytes), IP version, address, prefix length.
AddressEntries ==
    { <<1, 4, 1, 2, 3, 0, 24>>,
      <<69, 57, 4, 1, 2, 3, 4, 32>>,
      <<1, 4, 1, 2, 3, 4, 28>>,
      <<1, 4, 1, 2, 3, 4, 33>>,
      <<1, 5, 1, 2, 3, 4, 32>>,
      <<2, 6>> \o [IPv6Zero EXCEPT ![1] = 32, ![2] = 1, ![16] = 1] \o <<128>>,
      <<2, 6>> \o [IPv6Zero EXCEPT ![1] = 32, ![2] = 1, ![16] = 1] \o <<64>> }

\* Entries of ROUTE_ADVERTISEMENT: IP version, start, end, IP protocol.
RangeEntries ==
    { <<4, 1, 2, 3, 4, 1, 2, 3, 9, 17>>,
      <<4, 1, 2, 3, 4, 1, 2, 3, 4, 0>>,
      <<4, 2, 0, 0, 0, 1, 255, 255, 255, 0>>,
      <<7, 1, 2, 3, 4, 1, 2, 3, 9, 17>>,
      <<6>> \o IPv6Zero \o [IPv6Zero EXCEPT ![16] = 255] \o <<6>> }

Prefixes(b) == {SubSeq(b, 1, k) : k \in 0..Len(b)}

RECURSIVE EntryLists(_, _)
\* The concatenations of up to n entries.
EntryLists(entries, n) ==
    IF n = 0 THEN {<<>>}
    ELSE LET shorter == EntryLists(entries, n - 1)
         IN shorter \cup {a \o b : a \in shorter, b \in entries}

\* The capsule values: up to MaxEntries entries, cut at any byte.
PayloadsFrom(entries) ==
    UNION {Prefixes(l) : l \in EntryLists(entries, MaxEntries)}

CapsuleTypes ==
    {capsuleTypeAddressAssign, capsuleTypeAddressRequest, capsuleTypeRouteAdvertisement}

NoParse == [err |-> "unparsed", entries |-> <<>>]

CpInit ==
    /\ cpPC = "idle"
    /\ cpType = 0
    /\ cpPayload = <<>>
    /\ cpOut = NoParse

Drop(b, n) == SubSeq(b, n + 1, Len(b))

\* quicvarint.Read on a reader that yields b: the error of the failing
\* ReadByte, which is io.EOF, when b ends before or within the varint.
quicvarintRead(b) ==
    LET p == quicvarintParse(b)
    IN [err |-> IF p.err THEN "io.EOF" ELSE "none", value |-> p.value, n |-> p.n]

\* The error of io.ReadFull (and of binary.Read) for n > 0 bytes from a reader
\* that yields b: io.EOF when no byte was read, io.ErrUnexpectedEOF when
\* fewer than n were.
ReadFull(b, n) ==
    IF Len(b) = 0 THEN "io.EOF"
    ELSE IF Len(b) < n THEN "io.ErrUnexpectedEOF"
    ELSE "none"

\* netip.Addr.BitLen() / 8 of an address of that IP version.
AddrLen(ipVersion) == IF ipVersion = 4 THEN 4 ELSE 16

\* netip.Prefix.Masked: the address with the bits after the first 'bits' zeroed.
Masked(ip, bits) ==
    [i \in 1..Len(ip) |->
        LET lo == 8 * (i - 1)
        IN IF bits >= lo + 8 THEN ip[i]
           ELSE IF bits <= lo THEN 0
           ELSE ip[i] - (ip[i] % (2 ^ (8 - (bits - lo))))]

\* netip.Addr.Compare(a, b) > 0 for two addresses of one length.
CompareGreater(a, b) ==
    \E i \in 1..Len(a) : a[i] > b[i] /\ \A j \in 1..(i - 1) : a[j] = b[j]

ParseFailed(e) == [err |-> e, rest |-> <<>>, entry |-> <<>>]

parseAddress(b) ==
    LET v == quicvarintRead(b) IN
    IF v.err # "none" THEN ParseFailed(v.err)
    ELSE LET b1 == Drop(b, v.n) IN
    IF b1 = <<>> THEN ParseFailed("io.EOF")
    ELSE LET ipVersion == b1[1]
             b2 == Drop(b1, 1)
         IN
    IF ipVersion \notin {4, 6} THEN ParseFailed("invalid IP version")
    ELSE IF ReadFull(b2, AddrLen(ipVersion)) # "none"
           THEN ParseFailed(ReadFull(b2, AddrLen(ipVersion)))
    ELSE LET ip == SubSeq(b2, 1, AddrLen(ipVersion))
             b3 == Drop(b2, AddrLen(ipVersion))
         IN
    IF b3 = <<>> THEN ParseFailed("io.EOF")
    ELSE LET prefixLen == b3[1] IN
    IF prefixLen > 8 * AddrLen(ipVersion) THEN ParseFailed("prefix length exceeds IP address length")
    ELSE IF ip # Masked(ip, prefixLen) THEN ParseFailed("lower bits not all zero")
    ELSE [err |-> "none", rest |-> Drop(b3, 1),
          entry |-> <<v.value, ip, prefixLen>>]

parseIPAddressRange(b) ==
    IF ReadFull(b, 1) # "none" THEN ParseFailed(ReadFull(b, 1))
    ELSE LET ipVersion == b[1]
             b1 == Drop(b, 1)
         IN
    IF ipVersion \notin {4, 6} THEN ParseFailed("invalid IP version")
    ELSE IF ReadFull(b1, AddrLen(ipVersion)) # "none"
           THEN ParseFailed(ReadFull(b1, AddrLen(ipVersion)))
    ELSE LET start == SubSeq(b1, 1, AddrLen(ipVersion))
             b2 == Drop(b1, AddrLen(ipVersion))
         IN
    IF ReadFull(b2, AddrLen(ipVersion)) # "none"
           THEN ParseFailed(ReadFull(b2, AddrLen(ipVersion)))
    ELSE LET end == SubSeq(b2, 1, AddrLen(ipVersion))
             b3 == Drop(b2, AddrLen(ipVersion))
         IN
    IF CompareGreater(start, end) THEN ParseFailed("start IP is greater than end IP")
    ELSE IF ReadFull(b3, 1) # "none" THEN ParseFailed(ReadFull(b3, 1))
    ELSE [err |-> "none", rest |-> Drop(b3, 1), entry |-> <<start, end, b3[1]>>]

RECURSIVE parseAddresses(_, _)
\* The loop of parseAddressAssignCapsule and parseAddressRequestCapsule:
\* io.EOF from parseAddress ends the list, any other error is returned.
parseAddresses(b, acc) ==
    LET r == parseAddress(b)
    IN IF r.err = "io.EOF" THEN [err |-> "none", entries |-> acc]
       ELSE IF r.err # "none" THEN [err |-> r.err, entries |-> <<>>]
       ELSE parseAddresses(r.rest, Append(acc, r.entry))

parseAddressAssignCapsule(b) == parseAddresses(b, <<>>)

parseAddressRequestCapsule(b) == parseAddresses(b, <<>>)

RECURSIVE parseRanges(_, _)
parseRanges(b, acc) ==
    LET r == parseIPAddressRange(b)
    IN IF r.err = "io.EOF" THEN [err |-> "none", entries |-> acc]
       ELSE IF r.err # "none" THEN [err |-> r.err, entries |-> <<>>]
       ELSE parseRanges(r.rest, Append(acc, r.entry))

parseRouteAdvertisementCapsule(b) == parseRanges(b, <<>>)

\* A capsule of one of the three types arrives; its reader yields the value
\* and then io.EOF.
CpReceive ==
    /\ cpPC = "idle"
    /\ \E ct \in CapsuleTypes :
         \E b \in PayloadsFrom(IF ct = capsuleTypeRouteAdvertisement
                                 THEN RangeEntries ELSE AddressEntries) :
           /\ cpType' = ct
           /\ cpPayload' = b
    /\ cpPC' = "received"
    /\ UNCHANGED cpOut
    /\ UNCHANGED nonCpVars

CpParseAddressAssign ==
    /\ cpPC = "received"
    /\ cpType = capsuleTypeAddressAssign
    /\ cpOut' = parseAddressAssignCapsule(cpPayload)
    /\ cpPC' = "parsed"
    /\ UNCHANGED <<cpType, cpPayload>>
    /\ UNCHANGED nonCpVars

CpParseAddressRequest ==
    /\ cpPC = "received"
    /\ cpType = capsuleTypeAddressRequest
    /\ cpOut' = parseAddressRequestCapsule(cpPayload)
    /\ cpPC' = "parsed"
    /\ UNCHANGED <<cpType, cpPayload>>
    /\ UNCHANGED nonCpVars

CpParseRouteAdvertisement ==
    /\ cpPC = "received"
    /\ cpType = capsuleTypeRouteAdvertisement
    /\ cpOut' = parseRouteAdvertisementCapsule(cpPayload)
    /\ cpPC' = "parsed"
    /\ UNCHANGED <<cpType, cpPayload>>
    /\ UNCHANGED nonCpVars

\* The next capsule.
CpNext ==
    /\ cpPC = "parsed"
    /\ cpPC' = "idle"
    /\ cpType' = 0
    /\ cpPayload' = <<>>
    /\ cpOut' = NoParse
    /\ UNCHANGED nonCpVars

\* ---------------------------------------------- ProxiedIPConn (src/conn_ip.go)
MaxCapsules == 3    \* capsules the peer sends on the stream

\* The capsule types the peer sends; "other" is ADDRESS_REQUEST or a type
\* readFromStream does not know.
PeerCapsules == {"ADDRESS_ASSIGN", "ROUTE_ADVERTISEMENT", "other"}

\* Nothing returned yet.
NoRoutes == [err |-> "none", routes |-> 0]

IpInit ==
    /\ ipStream = <<>>
    /\ ipSent = 0
    /\ ipFin = FALSE
    /\ ipReader = "capsule"
    /\ ipRanges = 0
    /\ assignedAddresses = 0
    /\ availableRoutes = 0
    /\ assignedAddressNotify = FALSE
    /\ availableRoutesNotify = FALSE
    /\ routesPC = "idle"
    /\ routesRet = NoRoutes
    /\ prefixesRet = 0

\* The peer writes a capsule; its content is numbered by its place on the stream.
IpPeerSends ==
    /\ ~ipFin
    /\ ipSent < MaxCapsules
    /\ \E t \in PeerCapsules :
         ipStream' = Append(ipStream, [type |-> t, id |-> ipSent + 1])
    /\ ipSent' = ipSent + 1
    /\ UNCHANGED <<ipFin, ipReader, ipRanges, assignedAddresses, availableRoutes,
                   assignedAddressNotify, availableRoutesNotify, routesPC, routesRet,
                   prefixesRet>>
    /\ UNCHANGED nonIpVars

\* The peer closes its send direction.
IpPeerFin ==
    /\ ~ipFin
    /\ ipFin' = TRUE
    /\ UNCHANGED <<ipStream, ipSent, ipReader, ipRanges, assignedAddresses, availableRoutes,
                   assignedAddressNotify, availableRoutesNotify, routesPC, routesRet,
                   prefixesRet>>
    /\ UNCHANGED nonIpVars

\* readFromStream, http3.ParseCapsule(r) and the switch: ADDRESS_ASSIGN is
\* parsed from cr, stored and notified; for ROUTE_ADVERTISEMENT the ranges are
\* read next; every other type, and the end of the stream, end the reader.
IpReadCapsule ==
    /\ ipReader = "capsule"
    /\ \/ /\ ipStream # <<>>
          /\ LET c == Head(ipStream) IN
             /\ ipReader' = CASE c.type = "ADDRESS_ASSIGN" -> "capsule"
                              [] c.type = "ROUTE_ADVERTISEMENT" -> "ranges"
                              [] OTHER -> "exited"
             /\ ipRanges' = IF c.type = "ROUTE_ADVERTISEMENT" THEN c.id ELSE 0
             /\ assignedAddresses' = IF c.type = "ADDRESS_ASSIGN" THEN c.id
                                     ELSE assignedAddresses
             /\ assignedAddressNotify' = (assignedAddressNotify \/ c.type = "ADDRESS_ASSIGN")
          /\ ipStream' = Tail(ipStream)
       \/ /\ ipStream = <<>>
          /\ ipFin
          /\ ipReader' = "exited"
          /\ UNCHANGED <<ipStream, ipRanges, assignedAddresses, assignedAddressNotify>>
    /\ UNCHANGED <<ipSent, ipFin, availableRoutes, availableRoutesNotify, routesPC, routesRet,
                   prefixesRet>>
    /\ UNCHANGED nonIpVars

\* parseRouteAdvertisementCapsule(r), given the stream's reader r and not the
\* capsule's reader cr: after the ranges of the capsule it reads on. The type
\* byte of a following capsule is not an IP version, which ends the reader
\* with that error; the end of the stream ends the list, and the ranges are
\* stored and notified on availableRoutesNotify.
IpReadRanges ==
    /\ ipReader = "ranges"
    /\ \/ /\ ipStream # <<>>
          /\ ipStream' = Tail(ipStream)
          /\ ipReader' = "exited"
          /\ UNCHANGED <<availableRoutes, availableRoutesNotify>>
       \/ /\ ipStream = <<>>
          /\ ipFin
          /\ availableRoutes' = ipRanges
          /\ availableRoutesNotify' = TRUE
          /\ ipReader' = "capsule"
          /\ UNCHANGED ipStream
    /\ ipRanges' = 0
    /\ UNCHANGED <<ipSent, ipFin, assignedAddresses, assignedAddressNotify, routesPC, routesRet,
                   prefixesRet>>
    /\ UNCHANGED nonIpVars

\* Routes is called and blocks in its select.
RoutesCall ==
    /\ routesPC = "idle"
    /\ routesPC' = "waiting"
    /\ routesRet' = NoRoutes
    /\ UNCHANGED <<ipStream, ipSent, ipFin, ipReader, ipRanges, assignedAddresses,
                   availableRoutes, assignedAddressNotify, availableRoutesNotify, prefixesRet>>
    /\ UNCHANGED nonIpVars

\* The channel case of the select in Routes can be taken:
\* 'case <-c.assignedAddressNotify'.
RoutesNotified(addressNotify, routesNotify) == addressNotify

\* Routes, 'case <-c.assignedAddressNotify: return *c.availableRoutes.Load(), nil':
\* a nil pointer dereference while no routes were stored.
RoutesWake ==
    /\ routesPC = "waiting"
    /\ RoutesNotified(assignedAddressNotify, availableRoutesNotify)
    /\ assignedAddressNotify' = FALSE
    /\ routesRet' = IF availableRoutes = 0 THEN [err |-> "panic", routes |-> 0]
                    ELSE [err |-> "nil", routes |-> availableRoutes]
    /\ routesPC' = "returned"
    /\ UNCHANGED <<ipStream, ipSent, ipFin, ipReader, ipRanges, assignedAddresses,
                   availableRoutes, availableRoutesNotify, prefixesRet>>
    /\ UNCHANGED nonIpVars

\* Routes, 'case <-ctx.Done(): return nil, ctx.Err()'.
RoutesCancel ==
    /\ routesPC = "waiting"
    /\ routesRet' = [err |-> "ctx.Err()", routes |-> 0]
    /\ routesPC' = "returned"
    /\ UNCHANGED <<ipStream, ipSent, ipFin, ipReader, ipRanges, assignedAddresses,
                   availableRoutes, assignedAddressNotify, availableRoutesNotify, prefixesRet>>
    /\ UNCHANGED nonIpVars

\* The application takes the result of Routes.
RoutesNext ==
    /\ routesPC = "returned"
    /\ routesRet.err # "panic"
    /\ routesPC' = "idle"
    /\ UNCHANGED <<ipStream, ipSent, ipFin, ipReader, ipRanges, assignedAddresses,
                   availableRoutes, assignedAddressNotify, availableRoutesNotify, routesRet,
                   prefixesRet>>
    /\ UNCHANGED nonIpVars

\* LocalPrefixes returns: 'case <-c.assignedAddressNotify'.
LocalPrefixes ==
    /\ assignedAddressNotify
    /\ assignedAddressNotify' = FALSE
    /\ prefixesRet' = assignedAddresses
    /\ UNCHANGED <<ipStream, ipSent, ipFin, ipReader, ipRanges, assignedAddresses,
                   availableRoutes, availableRoutesNotify, routesPC, routesRet>>
    /\ UNCHANGED nonIpVars

\* ------------------------------------------------- the end of an unbound flow
MaxFeQueue == 2     \* datagrams queued on the stream

FeInit ==
    /\ feQueue = <<>>
    /\ fePeerFin = FALSE
    /\ feRcvErr = FALSE
    /\ feSendClosed = FALSE
    /\ feSockClosed = FALSE
    /\ feCap = "read"
    /\ feUp = "recv"
    /\ feDown = "read"
    /\ feHeld = "none"
    /\ feWritten = {}
    /\ feRefused = FALSE

\* The client sends an HTTP datagram; the HTTP/3 layer queues it unless the
\* stream already has a receive error.
FePeerSends ==
    /\ Len(feQueue) < MaxFeQueue
    /\ ~feRcvErr
    /\ \E kind \in {"ctx0", "other", "malformed"} : feQueue' = Append(feQueue, kind)
    /\ UNCHANGED <<fePeerFin, feRcvErr, feSendClosed, feSockClosed, feCap, feUp, feDown,
                   feHeld, feWritten, feRefused>>
    /\ UNCHANGED nonFeVars

FePeerFin ==
    /\ ~fePeerFin
    /\ fePeerFin' = TRUE
    /\ UNCHANGED <<feQueue, feRcvErr, feSendClosed, feSockClosed, feCap, feUp, feDown,
                   feHeld, feWritten, feRefused>>
    /\ UNCHANGED nonFeVars

\* processCapsule returns: the stream's Read returned io.EOF.
FeCapRead ==
    /\ feCap = "read"
    /\ fePeerFin
    /\ feRcvErr' = TRUE
    /\ feCap' = "close"
    /\ UNCHANGED <<feQueue, fePeerFin, feSendClosed, feSockClosed, feUp, feDown,
                   feHeld, feWritten, feRefused>>
    /\ UNCHANGED nonFeVars

\* The capsule goroutine: str.Close().
FeCapStrClose ==
    /\ feCap = "close"
    /\ feSendClosed' = TRUE
    /\ feCap' = "closeconn"
    /\ UNCHANGED <<feQueue, fePeerFin, feRcvErr, feSockClosed, feUp, feDown,
                   feHeld, feWritten, feRefused>>
    /\ UNCHANGED nonFeVars

\* The capsule goroutine: conn.Close(), wg.Done().
FeCapConnClose ==
    /\ feCap = "closeconn"
    /\ feSockClosed' = TRUE
    /\ feCap' = "exited"
    /\ UNCHANGED <<feQueue, fePeerFin, feRcvErr, feSendClosed, feUp, feDown,
                   feHeld, feWritten, feRefused>>
    /\ UNCHANGED nonFeVars

\* When a datagram is handed to the uplink: before the capsule goroutine
\* called str.Close(), between its str.Close() and its conn.Close(), or after.
FePhase ==
    IF feSockClosed THEN "closed"
    ELSE IF feCap = "closeconn" THEN "late"
    ELSE "early"

\* str.ReceiveDatagram returns the first queued datagram; quicvarint.Parse
\* fails on it, or its context ID is not 0 (continue), or it is 0.
FeUpReceive ==
    /\ feUp = "recv"
    /\ feQueue # <<>>
    /\ feQueue' = Tail(feQueue)
    /\ CASE Head(feQueue) = "ctx0" -> feUp' = "write" /\ feHeld' = FePhase
         [] Head(feQueue) = "other" -> UNCHANGED <<feUp, feHeld>>
         [] OTHER -> feUp' = "close" /\ UNCHANGED feHeld
    /\ UNCHANGED <<fePeerFin, feRcvErr, feSendClosed, feSockClosed, feCap, feDown,
                   feWritten, feRefused>>
    /\ UNCHANGED nonFeVars

\* str.ReceiveDatagram returns the receive error: nothing is queued.
FeUpReceiveErr ==
    /\ feUp = "recv"
    /\ feQueue = <<>>
    /\ feRcvErr
    /\ feUp' = "close"
    /\ UNCHANGED <<feQueue, fePeerFin, feRcvErr, feSendClosed, feSockClosed, feCap, feDown,
                   feHeld, feWritten, feRefused>>
    /\ UNCHANGED nonFeVars

FeWriteOkAlways(ok) == ok

\* conn.Write succeeds: never on a closed socket.
FeWriteOk(ok) == ok /\ ~feSockClosed

\* conn.Write(data[n:]).
FeUpWrite ==
    /\ feUp = "write"
    /\ \E ok \in BOOLEAN :
         IF FeWriteOk(ok)
           THEN /\ feWritten' = feWritten \cup {feHeld}
                /\ feUp' = "recv"
                /\ UNCHANGED feRefused
           ELSE /\ feUp' = "close"
                /\ feRefused' = (feRefused \/ feHeld = "closed")
                /\ UNCHANGED feWritten
    /\ feHeld' = "none"
    /\ UNCHANGED <<feQueue, fePeerFin, feRcvErr, feSendClosed, feSockClosed, feCap, feDown>>
    /\ UNCHANGED nonFeVars

\* The uplink goroutine after proxyConnSend returned: str.Close(), wg.Done().
FeUpClose ==
    /\ feUp = "close"
    /\ feSendClosed' = TRUE
    /\ feUp' = "exited"
    /\ UNCHANGED <<feQueue, fePeerFin, feRcvErr, feSockClosed, feCap, feDown,
                   feHeld, feWritten, feRefused>>
    /\ UNCHANGED nonFeVars

\* The downlink goroutine: conn.Read, str.SendDatagram, and after
\* proxyConnReceive returned str.Close(), wg.Done().
FeDown ==
    /\ CASE feDown = "read" /\ feSockClosed -> feDown' = "close" /\ UNCHANGED feSendClosed
         [] feDown = "read" /\ ~feSockClosed ->
              /\ \E ok \in BOOLEAN : feDown' = IF ok THEN "send" ELSE "close"
              /\ UNCHANGED feSendClosed
         [] feDown = "send" ->
              /\ \E ok \in BOOLEAN : feDown' = IF ok /\ ~feSendClosed THEN "read" ELSE "close"
              /\ UNCHANGED feSendClosed
         [] feDown = "close" -> feDown' = "exited" /\ feSendClosed' = TRUE
         [] OTHER -> FALSE
    /\ UNCHANGED <<feQueue, fePeerFin, feRcvErr, feSockClosed, feCap, feUp,
                   feHeld, feWritten, feRefused>>
    /\ UNCHANGED nonFeVars

\* ---------------------------------------------- Proxy.Proxy, Proxy-Status
\* An error, by what errors.As and net.Error.Timeout find in it.
NoErr == [is |-> FALSE, dns |-> FALSE, addr |-> FALSE, timeout |-> FALSE, notFound |-> FALSE]

Errs ==
    { e \in [is : {TRUE}, dns : BOOLEAN, addr : BOOLEAN, timeout : BOOLEAN,
             notFound : BOOLEAN] : e.notFound => (e.dns /\ ~e.timeout) }

\* net.ResolveUDPAddr fails with a *net.DNSError, a *net.AddrError, ...
ResolveErrs == { e \in Errs : ~(e.dns /\ e.addr) }

\* net.DialUDP on a resolved address fails with a *net.OpError.
DialErrs == { e \in Errs : ~e.dns }

\* The error of httpsfv.Marshal: no net.Error, no DNS or address error.
MarshalErr == [is |-> TRUE, dns |-> FALSE, addr |-> FALSE, timeout |-> FALSE, notFound |-> FALSE]

errToStatus(err) ==
    IF err.timeout THEN StatusGatewayTimeout
    ELSE IF err.dns THEN StatusBadGateway
    ELSE IF err.addr THEN StatusBadRequest
    ELSE StatusInternalServerError

NoParams == [error |-> "", rcode |-> "", details |-> FALSE, nextHop |-> FALSE]

NoHeader == [set |-> FALSE, params |-> NoParams]

dnsErrorToProxyStatus(params, dnsError) ==
    IF dnsError.timeout THEN [params EXCEPT !.error = "dns_timeout"]
    ELSE [params EXCEPT !.error = "dns_error",
                        !.rcode = IF dnsError.notFound THEN "Negative response"
                                  ELSE "SERVFAIL"]

Revisions == {"proxy.go", "part_019"}

PsCalls ==
    [rev : Revisions, closed : BOOLEAN, resolveErr : ResolveErrs \cup {NoErr},
     dialErr : DialErrs \cup {NoErr}, marshalOk : BOOLEAN]

NoCall ==
    [rev |-> "part_019", closed |-> FALSE, resolveErr |-> NoErr, dialErr |-> NoErr,
     marshalOk |-> TRUE]

Returned(kind, err) == [kind |-> kind, err |-> err]

PsInit ==
    /\ psPC = "idle"
    /\ psIn = NoCall
    /\ psProxyStatus = NoParams
    /\ psHeader = NoHeader
    /\ psWritten = <<>>
    /\ psRet = Returned("none", NoErr)

PsCall ==
    /\ psPC = "idle"
    /\ psPC' = "entry"
    /\ \E c \in PsCalls : psIn' = c
    /\ UNCHANGED <<psProxyStatus, psHeader, psWritten, psRet>>
    /\ UNCHANGED nonPsVars

\* "if s.closed": 503 and net.ErrClosed.
PsCheckClosed ==
    /\ psPC = "entry"
    /\ IF psIn.closed
         THEN /\ psWritten' = Append(psWritten, StatusServiceUnavailable)
              /\ psRet' = Returned("ErrClosed", NoErr)
              /\ psPC' = "returned"
         ELSE /\ psPC' = "resolve"
              /\ UNCHANGED <<psWritten, psRet>>
    /\ UNCHANGED <<psIn, psProxyStatus, psHeader>>
    /\ UNCHANGED nonPsVars

\* writeProxyStatus(err) with the parameters params, then
\* w.WriteHeader(errToStatus(err)) and "return err".
PsFail(params, err) ==
    LET withDetails == [params EXCEPT !.details = TRUE]
        out == IF psIn.marshalOk THEN err ELSE MarshalErr
    IN  /\ psProxyStatus' = withDetails
        /\ psHeader' = IF psIn.marshalOk THEN [set |-> TRUE, params |-> withDetails]
                       ELSE psHeader
        /\ psWritten' = Append(psWritten, errToStatus(out))
        /\ psRet' = Returned(IF psIn.marshalOk THEN "err" ELSE "marshalErr", out)
        /\ psPC' = "returned"

\* net.ResolveUDPAddr in src/unnamed/part_019.
PsResolve ==
    /\ psPC = "resolve" /\ psIn.rev = "part_019"
    /\ IF psIn.resolveErr.is
         THEN PsFail(IF psIn.resolveErr.dns
                       THEN dnsErrorToProxyStatus(psProxyStatus, psIn.resolveErr)
                       ELSE psProxyStatus,
                     psIn.resolveErr)
         ELSE /\ psProxyStatus' = [psProxyStatus EXCEPT !.nextHop = TRUE]
              /\ psPC' = "dial"
              /\ UNCHANGED <<psHeader, psWritten, psRet>>
    /\ UNCHANGED psIn
    /\ UNCHANGED nonPsVars

\* net.DialUDP in src/unnamed/part_019.
PsDial ==
    /\ psPC = "dial" /\ psIn.rev = "part_019"
    /\ IF psIn.dialErr.is
         THEN PsFail([psProxyStatus EXCEPT !.error = "destination_ip_unroutable"],
                     psIn.dialErr)
         ELSE /\ psPC' = "marshal"
              /\ UNCHANGED <<psProxyStatus, psHeader, psWritten, psRet>>
    /\ UNCHANGED psIn
    /\ UNCHANGED nonPsVars

\* "if err = writeProxyStatus(nil); err != nil".
PsWriteProxyStatus ==
    /\ psPC = "marshal"
    /\ IF psIn.marshalOk
         THEN /\ psHeader' = [set |-> TRUE, params |-> psProxyStatus]
              /\ psPC' = "connected"
              /\ UNCHANGED <<psWritten, psRet>>
         ELSE /\ psWritten' = Append(psWritten, errToStatus(MarshalErr))
              /\ psRet' = Returned("marshalErr", MarshalErr)
              /\ psPC' = "returned"
              /\ UNCHANGED psHeader
    /\ UNCHANGED <<psIn, psProxyStatus>>
    /\ UNCHANGED nonPsVars

\* net.ResolveUDPAddr and net.DialUDP in src/proxy.go: 504 for every error.
PsResolveAndDial ==
    /\ psPC = "resolve" /\ psIn.rev = "proxy.go"
    /\ IF psIn.resolveErr.is \/ psIn.dialErr.is
         THEN /\ psWritten' = Append(psWritten, StatusGatewayTimeout)
              /\ psRet' = Returned("err", IF psIn.resolveErr.is THEN psIn.resolveErr
                                          ELSE psIn.dialErr)
              /\ psPC' = "returned"
         ELSE /\ psPC' = "connected"
              /\ UNCHANGED <<psWritten, psRet>>
    /\ UNCHANGED <<psIn, psProxyStatus, psHeader>>
    /\ UNCHANGED nonPsVars

\* "return s.ProxyConnectedSocket(w, r, conn)": the proxy may have been closed
\* since the first check; otherwise the flow is accepted with 200 and runs
\* until one of its ends stops.
PsProxyConnectedSocket ==
    /\ psPC = "connected"
    /\ \E closedNow \in BOOLEAN :
         /\ psWritten' = Append(psWritten, IF closedNow THEN StatusServiceUnavailable
                                           ELSE StatusOK)
         /\ psRet' = Returned(IF closedNow THEN "ErrClosed" ELSE "nil", NoErr)
    /\ psPC' = "returned"
    /\ UNCHANGED <<psIn, psProxyStatus, psHeader>>
    /\ UNCHANGED nonPsVars

\* The next request.
PsNext ==
    /\ psPC = "returned"
    /\ psPC' = "idle"
    /\ psIn' = NoCall
    /\ psProxyStatus' = NoParams
    /\ psHeader' = NoHeader
    /\ psWritten' = <<>>
    /\ psRet' = Returned("none", NoErr)
    /\ UNCHANGED nonPsVars

\* ------------------------------------------------------ request validators
\* Strings that the validators take apart are sequences of characters.
Digits == <<"0", "1", "2", "3", "4", "5", "6", "7", "8", "9">>

IsDigit(c) == \E i \in 1..10 : Digits[i] = c

DigitValue(c) == (CHOOSE i \in 1..10 : Digits[i] = c) - 1

RECURSIVE DecimalValue(_)
DecimalValue(s) ==
    IF s = <<>> THEN 0
    ELSE 10 * DecimalValue(SubSeq(s, 1, Len(s) - 1)) + DigitValue(s[Len(s)])

\* strconv.Atoi: an optional sign, then one or more decimal digits.
Atoi(s) ==
    LET signed == s # <<>> /\ s[1] \in {"+", "-"}
        ds == IF signed THEN Tail(s) ELSE s
    IN  IF ds = <<>> \/ \E i \in 1..Len(ds) : ~IsDigit(ds[i])
          THEN [err |-> TRUE, n |-> 0]
          ELSE [err |-> FALSE,
                n |-> IF s[1] = "-" THEN 0 - DecimalValue(ds) ELSE DecimalValue(ds)]

RECURSIVE FormatNat(_)
FormatNat(n) ==
    IF n < 10 THEN <<Digits[n + 1]>>
    ELSE FormatNat(n \div 10) \o <<Digits[(n % 10) + 1]>>

\* The %d verb of fmt.Sprintf.
FormatInt(n) == IF n < 0 THEN <<"-">> \o FormatNat(0 - n) ELSE FormatNat(n)

\* strings.ReplaceAll(s, "%3A", ":")
RECURSIVE unescape(_)
unescape(s) ==
    IF Len(s) >= 3 /\ SubSeq(s, 1, 3) = <<"%", "3", "A">>
      THEN <<":">> \o unescape(SubSeq(s, 4, Len(s)))
    ELSE IF s = <<>> THEN <<>>
    ELSE <<s[1]>> \o unescape(Tail(s))

\* strings.Contains(s, ":")
ContainsColon(s) == \E i \in 1..Len(s) : s[i] = ":"

\* httpsfv.UnmarshalItem on the values of a header, and the type of the item.
UnmarshalItem(h) ==
    CASE h = "?1" -> [err |-> FALSE, isBool |-> TRUE, v |-> TRUE]
      [] h = "?0" -> [err |-> FALSE, isBool |-> TRUE, v |-> FALSE]
      [] h = "1" -> [err |-> FALSE, isBool |-> FALSE, v |-> FALSE]
      [] OTHER -> [err |-> TRUE, isBool |-> FALSE, v |-> FALSE]

requestProtocol == "connect-udp"

\* The host of the template used throughout: https://localhost:1234/masque?...
TemplateHost == "localhost:1234"

Methods == {"CONNECT", "HEAD"}
Protos == {requestProtocol, "HTTP/3.0"}
Authorities == {TemplateHost, "quic-go.net:1234"}
HeaderValues == {"absent", "?1", "?0", "1", "garbage"}

\* Values of target_host and of target_port as template.Match returns them
\* (empty when the URL has no such variable).
HostStrings ==
    { <<>>, <<"h">>, <<"1", ".", "2">>, <<"%", "3", "A", "%", "3", "A", "1">>, <<"*">> }

PortStrings ==
    { <<>>, <<"0">>, <<"8", "0">>, <<"+", "8", "0">>, <<"0", "8", "0">>, <<"-", "1">>,
      <<"6", "5", "5", "3", "5">>, <<"6", "5", "5", "3", "6">>, <<"7", "0", "0", "0", "0">>,
      <<"8", "0", "a">>, <<"-">>, <<"*">> }

Requests ==
    [method : Methods, proto : Protos, host : Authorities, capsule : HeaderValues,
     bind : HeaderValues, targetHost : HostStrings, targetPort : PortStrings]

NoRequest ==
    [method |-> "CONNECT", proto |-> requestProtocol, host |-> TemplateHost,
     capsule |-> "absent", bind |-> "absent", targetHost |-> <<>>, targetPort |-> <<>>]

\* return nil, &RequestParseError{HTTPStatus: code}
RequestParseError(code) == [ok |-> FALSE, status |-> code, target |-> <<>>, bind |-> FALSE]

\* return &Request{Target: target, Bind: bind}, nil
Request(target, bind) == [ok |-> TRUE, status |-> 0, target |-> target, bind |-> bind]

NoResult == [ok |-> FALSE, status |-> 0, target |-> <<>>, bind |-> FALSE]

\* The target of a request that does not bind: the host, bracketed when it
\* contains a colon, and the port as strconv.Atoi read it.
TargetOf(r) ==
    LET targetHost == unescape(r.targetHost)
        host == IF ContainsColon(targetHost) THEN <<"[">> \o targetHost \o <<"]">>
                ELSE targetHost
        port == Atoi(r.targetPort)
    IN  IF port.err THEN RequestParseError(StatusBadRequest)
        ELSE Request(host \o <<":">> \o FormatInt(port.n), FALSE)

\* The Capsule-Protocol header must be there and be the boolean true.
CapsuleRequired(r) ==
    /\ r.capsule # "absent"
    /\ ~UnmarshalItem(r.capsule).err
    /\ UnmarshalItem(r.capsule).isBool
    /\ UnmarshalItem(r.capsule).v

\* The Capsule-Protocol header is optional, and validated when present.
CapsuleOptional(r) == r.capsule = "absent" \/ CapsuleRequired(r)

\* ParseRequest of src/request.go (":authority" is not looked at).
ParseRequest(r) ==
    IF r.method # "CONNECT" THEN RequestParseError(StatusMethodNotAllowed)
    ELSE IF r.proto # requestProtocol THEN RequestParseError(StatusNotImplemented)
    ELSE IF ~CapsuleRequired(r) THEN RequestParseError(StatusBadRequest)
    ELSE IF unescape(r.targetHost) = <<>> \/ r.targetPort = <<>>
      THEN RequestParseError(StatusBadRequest)
    ELSE TargetOf(r)

\* verifyConnectUDPAndIPRequest: 0 stands for the nil error.
verifyConnectUDPAndIPRequest(r, templateOk) ==
    IF ~templateOk THEN StatusInternalServerError
    ELSE IF r.method # "CONNECT" THEN StatusMethodNotAllowed
    ELSE IF r.host # TemplateHost THEN StatusBadRequest
    ELSE IF ~CapsuleRequired(r) THEN StatusBadRequest
    ELSE 0

ParseConnectUDPRequest(r, templateOk) ==
    IF r.proto # requestProtocol THEN RequestParseError(StatusNotImplemented)
    ELSE IF verifyConnectUDPAndIPRequest(r, templateOk) # 0
      THEN RequestParseError(verifyConnectUDPAndIPRequest(r, templateOk))
    ELSE IF unescape(r.targetHost) = <<>> \/ r.targetPort = <<>>
      THEN RequestParseError(StatusBadRequest)
    ELSE TargetOf(r)

\* The Connect-Udp-Bind header: rejected when it is not a boolean item.
BindHeaderOk(r) ==
    r.bind = "absent" \/ (~UnmarshalItem(r.bind).err /\ UnmarshalItem(r.bind).isBool)

BindRequested(r) == r.bind # "absent" /\ UnmarshalItem(r.bind).v

BindAnyTarget(r) == TRUE

\* "targetHost != "*" || targetPortStr != "*"" is the rejection.
BindTargetOk(r) == ~(unescape(r.targetHost) # <<"*">> \/ r.targetPort # <<"*">>)

\* ParseRequest of src/unnamed/part_000 (Connect-Udp-Bind).
ParseRequestBind(r, templateOk) ==
    IF ~templateOk THEN RequestParseError(StatusInternalServerError)
    ELSE IF r.method # "CONNECT" THEN RequestParseError(StatusMethodNotAllowed)
    ELSE IF r.proto # requestProtocol THEN RequestParseError(StatusNotImplemented)
    ELSE IF r.host # TemplateHost THEN RequestParseError(StatusBadRequest)
    ELSE IF ~CapsuleOptional(r) THEN RequestParseError(StatusBadRequest)
    ELSE IF ~BindHeaderOk(r) THEN RequestParseError(StatusBadRequest)
    ELSE IF unescape(r.targetHost) = <<>> \/ r.targetPort = <<>>
      THEN RequestParseError(StatusBadRequest)
    ELSE IF ~BindRequested(r) THEN TargetOf(r)
    ELSE IF ~BindTargetOk(r) THEN RequestParseError(StatusBadRequest)
    ELSE Request(unescape(r.targetHost) \o <<":">> \o r.targetPort, TRUE)

RqInit ==
    /\ rqPC = "idle"
    /\ rqReq = NoRequest
    /\ rqTemplateOk = TRUE
    /\ rqBy = "none"
    /\ rqOut = NoResult

\* A request arrives at a proxy configured with a template.
RqReceive ==
    /\ rqPC = "idle"
    /\ rqPC' = "received"
    /\ \E r \in Requests, templateOk \in BOOLEAN :
         /\ rqReq' = r
         /\ rqTemplateOk' = templateOk
    /\ UNCHANGED <<rqBy, rqOut>>
    /\ UNCHANGED nonRqVars

RqParseRequest ==
    /\ rqPC = "received"
    /\ rqPC' = "parsed"
    /\ rqBy' = "ParseRequest"
    /\ rqOut' = ParseRequest(rqReq)
    /\ UNCHANGED <<rqReq, rqTemplateOk>>
    /\ UNCHANGED nonRqVars

RqParseConnectUDPRequest ==
    /\ rqPC = "received"
    /\ rqPC' = "parsed"
    /\ rqBy' = "ParseConnectUDPRequest"
    /\ rqOut' = ParseConnectUDPRequest(rqReq, rqTemplateOk)
    /\ UNCHANGED <<rqReq, rqTemplateOk>>
    /\ UNCHANGED nonRqVars

RqParseRequestBind ==
    /\ rqPC = "received"
    /\ rqPC' = "parsed"
    /\ rqBy' = "ParseRequestBind"
    /\ rqOut' = ParseRequestBind(rqReq, rqTemplateOk)
    /\ UNCHANGED <<rqReq, rqTemplateOk>>
    /\ UNCHANGED nonRqVars


NextProxy ==
    \/ \E f \in Flows : Call(f)
    \/ \E f \in Flows : ProxyEntry(f)
    \/ \E f \in Flows : ProxyDial(f)
    \/ \E f \in Flows : CheckClosed(f)
    \/ \E f \in Flows : Upgrade(f)
    \/ \E f \in Flows : Register(f)
    \/ \E f \in Flows : Spawn(f)
    \/ \E f \in Flows : Return(f)
    \/ \E f \in Flows : PeerFin(f)
    \/ \E f \in Flows : UpRecvDatagram(f)
    \/ \E f \in Flows : UpRecvErr(f)
    \/ \E f \in Flows : UpWrite(f)
    \/ \E f \in Flows : UpClose(f)
    \/ \E f \in Flows : DownRead(f)
    \/ \E f \in Flows : DownReadClosed(f)
    \/ \E f \in Flows : DownSend(f)
    \/ \E f \in Flows : DownClose(f)
    \/ \E f \in Flows : CapRead(f)
    \/ \E f \in Flows : CapClose(f)
    \/ CloseStore
    \/ CloseLock
    \/ \E f \in Flows : CloseEntry(f)
    \/ CloseUnlock
    \/ CloseWait

NextUplink ==
    \/ \E d \in SeqsUpTo(Bytes, MaxDgLen) : PeerSendDatagram(d)
    \/ StreamReceiveEnds
    \/ UplinkReceive
    \/ UplinkReceiveErr
    \/ UplinkWrite

NextDownlink ==
    \/ \E p \in SeqsUpTo(Bytes, MaxPktLen) : PacketArrives(p)
    \/ SocketCloses
    \/ DownlinkRead
    \/ DownlinkReadErr
    \/ DownlinkSend

NextConn ==
    \/ Tick
    \/ DatagramArrives
    \/ TimerFire
    \/ TimerCallback
    \/ ReadFromCall
    \/ ReadFromLoadCtx
    \/ ReceiveData
    \/ ReceiveCanceled
    \/ ReadFromRecheck
    \/ \E t \in Times : SetReadDeadlineLock(t)
    \/ SetReadDeadlineBody

\* With Close in play SetReadDeadline is given the zero time or one fixed time,
\* which is in the future at first and in the past once the clock has run.
CloseTimes == {0, 2}

NextConnClose ==
    \/ Tick
    \/ DatagramArrives
    \/ TimerFire
    \/ TimerCallback
    \/ ReadFromCall
    \/ ReadFromLoadCtx
    \/ ReceiveData
    \/ ReceiveCanceled
    \/ ReadFromRecheck
    \/ \E t \in CloseTimes : SetReadDeadlineLock(t)
    \/ SetReadDeadlineBody
    \/ ConnPeerFin
    \/ SkipCapsulesReturns
    \/ SkipCapsulesClose
    \/ ReceiveErr
    \/ WriteTo
    \/ CloseCall
    \/ CloseStream
    \/ CloseCancelCtx
    \/ CloseStopTimer

\* Close against SetReadDeadline and the timer, with no ReadFrom or WriteTo
\* in progress.
NextConnStop ==
    \/ Tick
    \/ TimerFire
    \/ TimerCallback
    \/ \E t \in CloseTimes : SetReadDeadlineLock(t)
    \/ SetReadDeadlineBody
    \/ ConnPeerFin
    \/ SkipCapsulesReturns
    \/ SkipCapsulesClose
    \/ CloseCall
    \/ CloseStream
    \/ CloseCancelCtx
    \/ CloseStopTimer

\* The client's connection while the proxy shuts down: no Close on the client.
NextConnShutdown ==
    \/ Tick
    \/ DatagramArrives
    \/ TimerFire
    \/ TimerCallback
    \/ ReadFromCall
    \/ ReadFromLoadCtx
    \/ ReceiveData
    \/ ReceiveCanceled
    \/ ReadFromRecheck
    \/ \E t \in CloseTimes : SetReadDeadlineLock(t)
    \/ SetReadDeadlineBody
    \/ ConnPeerFin
    \/ SkipCapsulesReturns
    \/ SkipCapsulesClose
    \/ ReceiveErr
    \/ WriteTo

NextConnRead ==
    \/ \E d \in SeqsUpTo(Bytes, MaxConnDgLen) : ConnDatagramArrives(d)
    \/ \E m \in 0..MaxBuf : ConnReadFrom(m)
    \/ ConnReadDatagram

NextRoundTrip ==
    \/ \E p \in RtPayloads : RtWriteTo(p)
    \/ RtProxyUplink
    \/ RtEcho
    \/ RtProxyDownlink
    \/ \E m \in {MaxRtLen, ReadBufSize} : RtReadFrom(m)
    \/ RtNext

NextClient ==
    \/ \E f \in Dials : ClDial(f)
    \/ \E f \in Dials : ClOnceEnter(f)
    \/ \E f \in Dials : ClQuicDial(f)
    \/ \E f \in Dials : ClOnceSkip(f)
    \/ \E f \in Dials : ClStart(f)
    \/ \E f \in Dials : ClSettings(f)
    \/ \E f \in Dials : ClOpenRequestStream(f)
    \/ \E f \in Dials : ClRequest(f)
    \/ \E f \in Dials : ClResponse(f)
    \/ ClCloseCall
    \/ ClCloseOnce
    \/ ClCloseConn

NextRequest ==
    \/ RqReceive
    \/ RqParseRequest
    \/ RqParseConnectUDPRequest
    \/ RqParseRequestBind

NextProxyStatus ==
    \/ PsCall
    \/ PsCheckClosed
    \/ PsResolve
    \/ PsDial
    \/ PsWriteProxyStatus
    \/ PsResolveAndDial
    \/ PsProxyConnectedSocket
    \/ PsNext

NextFlowEnd ==
    \/ FePeerSends
    \/ FePeerFin
    \/ FeCapRead
    \/ FeCapStrClose
    \/ FeCapConnClose
    \/ FeUpReceive
    \/ FeUpReceiveErr
    \/ FeUpWrite
    \/ FeUpClose
    \/ FeDown

NextBind ==
    \/ \E f \in BoundFlows : ProxyListen(f)
    \/ \E f \in BoundFlows : BdProcessCapsule(f)
    \/ \E f \in BoundFlows : BdConnSend(f)
    \/ \E f \in BoundFlows : BdConnReceive(f)
    \/ \E f \in BoundFlows : BdEnd(f)

NextCapsule ==
    \/ CpReceive
    \/ CpParseAddressAssign
    \/ CpParseAddressRequest
    \/ CpParseRouteAdvertisement
    \/ CpNext

NextIPConn ==
    \/ IpPeerSends
    \/ IpPeerFin
    \/ IpReadCapsule
    \/ IpReadRanges
    \/ RoutesCall
    \/ RoutesWake
    \/ RoutesCancel
    \/ RoutesNext
    \/ LocalPrefixes

Init ==
    /\ ProxyInit /\ UpInit /\ DownInit /\ ConnInit /\ CrInit /\ RtInit /\ ClInit /\ RqInit
    /\ PsInit
    /\ FeInit
    /\ BdInit
    /\ CpInit
    /\ IpInit

SpecProxy == Init /\ [][NextProxy]_vars

SpecUplink == Init /\ [][NextUplink]_vars

SpecDownlink == Init /\ [][NextDownlink]_vars

SpecConn == Init /\ [][NextConn]_vars

SpecConnClose == Init /\ [][NextConnClose]_vars

SpecConnRead == Init /\ [][NextConnRead]_vars

SpecRoundTrip == Init /\ [][NextRoundTrip]_vars

SpecClient == Init /\ [][NextClient]_vars

SpecRequest == Init /\ [][NextRequest]_vars

SpecProxyStatus == Init /\ [][NextProxyStatus]_vars

SpecIPConn == Init /\ [][NextIPConn]_vars

\* The goroutine of readFromStream and a Routes call whose select has a ready
\* case run; nothing is assumed of the peer, of the caller's context or of
\* further calls by the application.
FairSpecIPConn == SpecIPConn /\ WF_vars(IpReadCapsule) /\ WF_vars(IpReadRanges) /\ WF_vars(RoutesWake)

SpecCapsule == Init /\ [][NextCapsule]_vars

SpecBind == Init /\ [][NextBind]_vars

SpecFlowEnd == Init /\ [][NextFlowEnd]_vars

\* Every goroutine that can take a step of its own eventually takes one (the Go
\* scheduler); nothing is assumed of the application, the peer or the network.
FairProxy ==
    /\ \A f \in Flows : WF_vars(CallStep(f))
    /\ \A f \in Flows : WF_vars(UpStep(f))
    /\ \A f \in Flows : WF_vars(DownStep(f))
    /\ \A f \in Flows : WF_vars(CapStep(f))
    /\ WF_vars(CloseStep)

FairSpecProxy == SpecProxy /\ FairProxy

\* The goroutines of a proxied connection (the one in ReadFrom, the one in
\* SetReadDeadline, the timer's) run when they can; a goroutine waiting for
\* deadlineMx gets it eventually (sync.Mutex hands the lock to a starved
\* waiter). Nothing is assumed of the clock, the application or the peer.
FairConn ==
    /\ SF_vars(ReadFromLoadCtx)
    /\ WF_vars(ReceiveData)
    /\ WF_vars(ReceiveCanceled)
    /\ SF_vars(ReadFromRecheck)
    /\ WF_vars(SetReadDeadlineBody)
    /\ WF_vars(TimerFire)
    /\ SF_vars(TimerCallback)

FairSpecConn == SpecConn /\ FairConn

SpecConnShutdown == Init /\ [][NextConnShutdown]_vars

\* As FairConn, and the goroutine started by newProxiedConn runs when it can.
FairConnShutdown ==
    /\ FairConn
    /\ WF_vars(ReceiveErr)
    /\ WF_vars(SkipCapsulesReturns)
    /\ WF_vars(SkipCapsulesClose)

FairSpecConnShutdown == SpecConnShutdown /\ FairConnShutdown

SpecConnStop == Init /\ [][NextConnStop]_vars

\* Close, SetReadDeadline, the timer and the goroutine started by newProxiedConn
\* each run when they can, and a goroutine waiting for deadlineMx gets it
\* eventually; nothing is assumed of the clock, the application or the peer.
FairConnStop ==
    /\ WF_vars(SetReadDeadlineBody)
    /\ WF_vars(TimerFire)
    /\ SF_vars(TimerCallback)
    /\ WF_vars(SkipCapsulesReturns)
    /\ WF_vars(SkipCapsulesClose)
    /\ WF_vars(CloseStream)
    /\ WF_vars(CloseCancelCtx)
    /\ SF_vars(CloseStopTimer)

FairSpecConnStop == SpecConnStop /\ FairConnStop

\* ------------------------------------------------------------------- claims

TaskKinds == {"up", "down", "cap"}

\* C1: once Proxy.Close has returned, the active-entry map is empty and no
\* uplink, downlink or capsule-drain goroutine of any flow is running (in any
\* state reached afterwards, so none gets started either).
C1_AfterCloseNothingRuns ==
    closePC = "returned" =>
        /\ conns = {}
        /\ \A f \in Flows : \A k \in TaskKinds : ~Running(f, k)

C3_ReturnAfterTasks ==
    \A f \in Flows : (pc[f] = "returned" /\ status[f] = StatusOK) => AllExited(f)

\* C3 witness: a call that wrote 200 has returned.
C3_Witness ==
    \E f \in Flows : pc[f] = "returned" /\ status[f] = StatusOK /\ ret[f] = "nil"

\* C4: a call that started after Close set the closed flag never writes 200,
\* adds no entry to the map, starts no goroutine, and returns net.ErrClosed
\* after writing 503.
C4_ClosedRejects ==
    \A f \in Flows : startedAfterClose[f] =>
        /\ status[f] \in {0, StatusServiceUnavailable}
        /\ f \notin conns
        /\ task[f] = NoTasks
        /\ pc[f] = "returned" => (status[f] = StatusServiceUnavailable /\ ret[f] = "ErrClosed")

\* C4 witness: calls through both entry points were rejected after Close.
C4_Witness ==
    \A f \in Flows : startedAfterClose[f] /\ pc[f] = "returned" /\ ret[f] = "ErrClosed"

\* C5: Proxy.Close, once called, eventually returns.
C5_CloseReturns ==
    (closePC # "idle") ~> (closePC = "returned")

\* ---- uplink and downlink of an unbound flow

Front(s) == SubSeq(s, 1, Len(s) - 1)

\* The datagram carries a well-formed context ID equal to 0 / different from 0.
HasContextZero(d) == ~quicvarintParse(d).err /\ quicvarintParse(d).value = 0
HasContextNonZero(d) == ~quicvarintParse(d).err /\ quicvarintParse(d).value # 0

\* The payload B of a datagram: what follows the context-ID varint.
PayloadOf(d) == SubSeq(d, quicvarintParse(d).n + 1, Len(d))

\* C6: on an unbound flow a datagram whose context ID is not 0 causes no write
\* to the UDP socket (every write, done or about to be done, belongs to a
\* context-ID-0 datagram) and does not end the uplink: after it was delivered
\* the uplink is back at ReceiveDatagram, or ended by that call's own error.
C6_NonZeroContextDropped ==
    /\ Len(udpOut) + (IF upPC = "write" THEN 1 ELSE 0)
          <= Len(SelectSeq(delivered, HasContextZero))
    /\ (delivered # <<>> /\ HasContextNonZero(delivered[Len(delivered)]))
          => (upPC = "recv" \/ (upPC = "exited" /\ upErr = "receive"))

\* C6 witness: a datagram with a non-zero context ID was delivered, and the
\* context-ID-0 datagram after it was written to the socket.
C6_Witness ==
    /\ Len(delivered) = 2
    /\ HasContextNonZero(delivered[1])
    /\ udpOut = <<PayloadOf(delivered[2])>>
    /\ upPC = "recv"

\* C7: the payloads written to the UDP socket are exactly the payloads of the
\* context-ID-0 datagrams delivered by the stream, in delivery order (the last
\* one excepted while its write is pending or when its write failed).
C7_UplinkPayloads ==
    LET zeros == SelectSeq(delivered, HasContextZero)
        expected == [i \in 1..Len(zeros) |-> PayloadOf(zeros[i])]
    IN udpOut = IF upPC = "write" \/ upErr = "write" THEN Front(expected) ELSE expected

\* C7 witness: two different payloads were written, the first one from a
\* datagram whose context ID 0 is encoded in two bytes.
C7_Witness ==
    /\ Len(udpOut) = 2
    /\ udpOut[1] # udpOut[2]
    /\ quicvarintParse(delivered[1]).n = 2

\* C8: for every UDP packet P read from the socket exactly one HTTP datagram,
\* the byte 0x00 followed by P, is handed to SendDatagram, in the order of the
\* reads (the last packet read excepted while its SendDatagram is pending).
C8_DownlinkDatagrams ==
    LET expected == [i \in 1..Len(readPkts) |-> <<0>> \o readPkts[i]]
    IN sendCalls = IF downPC = "send" THEN Front(expected) ELSE expected

\* C8 witness: two different packets were read and forwarded.
C8_Witness ==
    /\ Len(sendCalls) = 2
    /\ readPkts[1] # readPkts[2]
    /\ downPC = "read"

\* ---- proxiedConn: read deadlines

\* C9: an expired read deadline leaves the connection usable. Once a ReadFrom
\* has returned deadline-exceeded, a SetReadDeadline call (to a future time or
\* to the zero time) completes, and a ReadFrom called afterwards fails with
\* deadline-exceeded only when a deadline is set and has passed.
C9_ExpiredDeadlineRecoverable ==
    /\ expiredOnce => spc # "blocked"
    /\ (rAfterExpiry /\ rpc = "returned" /\ rresult = "deadline")
          => (rretDeadline # 0 /\ rretDeadline <= rretTime)

\* C10: a ReadFrom in progress whose pending deadline t1 was replaced, before
\* t1 passed, by a later deadline t2 does not return deadline-exceeded before t2.
C10_ExtendedDeadline ==
    (rpc = "returned" /\ rresult = "deadline" /\ extendedTo # 0) => rretTime >= extendedTo

\* C10 witness: the deadline of a blocked ReadFrom was extended from t1 to t2,
\* the read was woken by the cancellation of its old context, went back to
\* start, and is blocked on the new context at a time t1 <= now < t2.
C10_Witness ==
    /\ extendedTo # 0
    /\ restarted
    /\ rpc = "recv"
    /\ rctx = readCtx
    /\ rctx \notin cancelled
    /\ extendedFrom <= now
    /\ now < extendedTo

\* C11: after SetReadDeadline(zero) was issued while a future deadline was
\* pending, and until SetReadDeadline is called again, no ReadFrom returns
\* os.ErrDeadlineExceeded (the connection's read context being live: no expired
\* deadline has cancelled it).
C11_ClearedDeadlineNoError ==
    [][(clearedOld # 0 /\ readCtx \notin cancelled /\ rpc # "returned" /\ rpc' = "returned")
          => rresult' # "deadline"]_vars

Reading == rpc \in {"start", "recv", "check"}

\* C12 (as claimed): every ReadFrom started after SetReadDeadline was given a
\* time not after now, and before SetReadDeadline is called again, returns
\* os.ErrDeadlineExceeded.
C12_PastDeadlineFailsEveryRead ==
    (rAfterPast /\ rpc = "returned") => rresult = "deadline"

\* C12 (amended): once SetReadDeadline has returned from a call with a time not
\* after now, a ReadFrom in progress returns (unless SetReadDeadline is called
\* again); a ReadFrom that returns without having taken a datagram from the
\* stream returns os.ErrDeadlineExceeded, and a ReadFrom started after the call
\* never goes back to waiting once its context is reported cancelled.
C12_PastDeadlineUnblocks ==
    /\ (pastSet /\ spc = "idle" /\ Reading) ~> (rpc = "returned" \/ ~pastSet)
    /\ [][(pastSet /\ spc = "idle" /\ Reading /\ rpc' = "returned" /\ connQueue' = connQueue)
             => rresult' = "deadline"]_vars
    /\ [][(rAfterPast /\ rpc = "check") => rpc' # "start"]_vars

\* A ReadFrom called after SetReadDeadline(past) returned deadline-exceeded.
C12_Witness ==
    pastSet /\ rAfterPast /\ rpc = "returned" /\ rresult = "deadline"

\* C13: once Close has cancelled and closed the stream, no ReadFrom waits for
\* deadlineMx while the lock is held by a call that never returns, a ReadFrom
\* that returns without a datagram returns an error, and WriteTo returns an
\* error.
C13_ClosedFailsPromptly ==
    /\ [](cancelReadCalls > 0 => ~(rpc \in {"start", "check"} /\ spc = "blocked"))
    /\ [][cancelReadCalls > 0 => wresult' \in {wresult, "error"}]_vars
    /\ [][(cancelReadCalls > 0 /\ Reading /\ rpc' = "returned" /\ connQueue' = connQueue)
             => rresult' \in {"error", "deadline"}]_vars

\* C14: Close is guarded by the closed flag: however often Close is called, the
\* request stream is cancelled (and closed) by Close at most once.
C14_CloseOnce ==
    cancelReadCalls <= 1

\* ---- proxiedConn.ReadFrom: the bytes returned

IsSuccess(r) == r.err = "none"

\* C15: the successful ReadFrom calls correspond one to one, in order, to the
\* context-ID-0 datagrams received (none to a datagram with another context
\* ID): each returns bytes of that datagram's payload, from its start, and the
\* connection's remote address; after a datagram with a non-zero context ID the
\* ReadFrom is still waiting.
C15_OnlyContextZeroReturned ==
    LET zeros == SelectSeq(crDelivered, HasContextZero)
        rets == SelectSeq(crReturns, IsSuccess)
    IN /\ Len(rets) = Len(zeros)
       /\ \A i \in 1..Len(rets) :
            /\ rets[i].addr = remoteAddr
            /\ rets[i].n <= Len(PayloadOf(zeros[i]))
            /\ rets[i].bytes = SubSeq(PayloadOf(zeros[i]), 1, rets[i].n)
       /\ (crDelivered # <<>> /\ HasContextNonZero(crDelivered[Len(crDelivered)]))
             => crPC = "recv"

\* A datagram with context ID 1 was dropped and the next, context ID 0, returned
\* with a non-empty payload that fits the buffer.
C15_Witness ==
    /\ Len(crDelivered) = 2
    /\ HasContextNonZero(crDelivered[1])
    /\ Len(PayloadOf(crDelivered[1])) > 0
    /\ Len(crReturns) = 1
    /\ crReturns[1].err = "none"
    /\ crReturns[1].n > 0
    /\ crReturns[1].bytes = PayloadOf(crDelivered[2])

\* C16: a ReadFrom with a buffer of m bytes on a k byte payload, m < k, returns
\* n = m and the first m bytes; each later ReadFrom returns bytes of a later
\* datagram, from the start of its payload (nothing is left over).
C16_Truncation ==
    LET zeros == SelectSeq(crDelivered, HasContextZero)
        rets == SelectSeq(crReturns, IsSuccess)
    IN /\ Len(rets) <= Len(zeros)
       /\ \A i \in 1..Len(rets) :
            LET payload == PayloadOf(zeros[i])
                k == Len(payload)
            IN /\ rets[i].m < k =>
                    /\ rets[i].n = rets[i].m
                    /\ rets[i].bytes = SubSeq(payload, 1, rets[i].m)
               /\ rets[i].m >= k => rets[i].bytes = payload

\* A two byte payload was read into a one byte buffer, and the next ReadFrom
\* returned the next datagram's payload, which differs from the byte cut off.
C16_Witness ==
    /\ Len(crReturns) = 2
    /\ Len(crDelivered) = 2
    /\ Len(PayloadOf(crDelivered[1])) = 2
    /\ crReturns[1].m = 1
    /\ crReturns[1].n = 1
    /\ crReturns[2].err = "none"
    /\ crReturns[2].n = 1
    /\ crReturns[2].bytes # <<PayloadOf(crDelivered[1])[2]>>

\* ---- proxiedConn: the proxy closes the flow

C18_RoundTrip ==
    /\ (rtPC # "idle" /\ Len(rtPayload) \in {0, 1, ReadBufSize}) => rtErr = "none"
    /\ rtPC \in {"target", "downlink", "client", "done"} => rtTarget = <<rtPayload>>
    /\ rtPC = "done" => rtRead = rtPayload

\* ---- Client

\* C19: quic.DialAddr is called at most once however many Dial / DialAddr calls
\* are made; every call that gets a connection gets that one; a call that
\* returned a proxied connection opened exactly one request stream, and no call
\* opens more than one.
C19_OneConnection ==
    /\ quicDials <= 1
    /\ \A f \in Dials : dconn[f] \in {0, 1}
    /\ \A f \in Dials : dstreams[f] <= 1
    /\ \A f \in Dials : dret[f] = "conn" => (dstreams[f] = 1 /\ dconn[f] = 1)

\* Calls racing for the first dial: one of them dialed, two of them were
\* given proxied connections.
C19_Witness ==
    /\ quicDials = 1
    /\ \E f, g \in Dials : f # g /\ dret[f] = "conn" /\ dret[g] = "conn"
    /\ \E h \in Dials : dpc[h] = "once"

\* C20: Close does not return while a Do call is running the dial, and when it
\* has returned no connection is open: a connection the first dial established
\* is closed.
C20_CloseWaitsForDial ==
    clpc = "returned" => (dialOnce = "done" /\ clConn # "open")

\* Close was called while the first dial was running, waited, and closed the
\* connection that dial established.
C20_Witness ==
    closeWaited /\ clpc = "returned" /\ clConn = "closed" /\ quicDials = 1

\* C21: a call has a request stream, or has sent the request headers, only if
\* its select took ReceivedSettings and the settings had Extended CONNECT and
\* datagrams enabled; a call whose select ended otherwise, or saw one of them
\* disabled, has returned an error without opening a stream; headers are sent
\* on an opened stream only.
C21_SettingsBeforeStream ==
    \A f \in Dials :
        /\ (dstreams[f] > 0 \/ dsent[f] > 0 \/ dpc[f] \in {"open", "request", "response"})
              => dsel[f] = [sel |-> "settings", extendedConnect |-> TRUE, datagrams |-> TRUE]
        /\ (dsel[f].sel # "none" /\ ~(dsel[f].sel = "settings" /\ dsel[f].extendedConnect
                                        /\ dsel[f].datagrams))
              => (dpc[f] = "returned" /\ dret[f] = "error" /\ dstreams[f] = 0 /\ dsent[f] = 0)
        /\ dsent[f] <= dstreams[f]

\* One call was refused because the peer had datagrams disabled, another sent
\* its request on its stream.
C21_Witness ==
    \E f, g \in Dials :
        /\ dsel[f] = [sel |-> "settings", extendedConnect |-> TRUE, datagrams |-> FALSE]
        /\ dret[f] = "error"
        /\ dstreams[g] = 1 /\ dsent[g] = 1

\* C22: once a response was read, the call has returned it, with a connection
\* and no error if its status is in 200..299, and with no connection and an
\* error otherwise.
C22_ResponseAlwaysReturned ==
    \A f \in Dials :
        dstatus[f] # 0 =>
            /\ dpc[f] = "returned"
            /\ drsp[f] = dstatus[f]
            /\ dret[f] \in {"conn", "error"}
            /\ dret[f] = "conn" <=> (200 <= dstatus[f] /\ dstatus[f] <= 299)

\* A response with status 299 gave a connection, one with status 300 an error
\* and the response.
C22_Witness ==
    \E f, g \in Dials :
        /\ dstatus[f] = 299 /\ dret[f] = "conn"
        /\ dstatus[g] = 300 /\ dret[g] = "error" /\ drsp[g] = 300

\* A request that passes every check of the validators except, possibly, the
\* one on target_port, and does not ask for bind.
PassesOtherChecks ==
    /\ rqTemplateOk
    /\ rqReq.method = "CONNECT"
    /\ rqReq.proto = requestProtocol
    /\ rqReq.host = TemplateHost
    /\ rqReq.capsule = "?1"
    /\ rqReq.bind = "absent"
    /\ rqReq.targetHost # <<>>

\* C23: for a request that passes the other checks, the validator returns a
\* Request if and only if target_port is a decimal integer in 0..65535, and
\* a RequestParseError with status 400 otherwise.
C23_PortInRange ==
    (rqPC = "parsed" /\ PassesOtherChecks) =>
        /\ rqOut.ok <=> (~Atoi(rqReq.targetPort).err /\ Atoi(rqReq.targetPort).n \in 0..65535)
        /\ ~rqOut.ok => rqOut.status = StatusBadRequest

\* C24: a request whose method is not CONNECT gets a RequestParseError with
\* status 405 from every validator, whatever its protocol, authority, headers
\* and URL are.
C24_NotConnectIs405 ==
    (rqPC = "parsed" /\ rqTemplateOk /\ rqReq.method # "CONNECT") =>
        (~rqOut.ok /\ rqOut.status = StatusMethodNotAllowed)

\* C25: a CONNECT request with protocol connect-udp whose :authority is not
\* the host of the template gets status 400 and no Request.
C25_AuthorityMismatchIs400 ==
    (/\ rqPC = "parsed" /\ rqTemplateOk
     /\ rqReq.method = "CONNECT" /\ rqReq.proto = requestProtocol
     /\ rqReq.host # TemplateHost) =>
        (~rqOut.ok /\ rqOut.status = StatusBadRequest)

\* C26: a Request has Bind = true only if the Connect-Udp-Bind header is the
\* boolean true and target_host and target_port both are "*", and its Target
\* is then "*:*"; a request that gets as far as the bind header with a
\* header that is not a boolean, or with the boolean true and another
\* target, is rejected with status 400.
C26_BindOnlyWildcard ==
    rqPC = "parsed" =>
        /\ rqOut.bind =>
              /\ rqOut.ok
              /\ rqReq.bind = "?1"
              /\ rqReq.targetHost = <<"*">> /\ rqReq.targetPort = <<"*">>
              /\ rqOut.target = <<"*", ":", "*">>
        /\ (/\ rqBy = "ParseRequestBind" /\ rqTemplateOk
            /\ rqReq.method = "CONNECT" /\ rqReq.proto = requestProtocol
            /\ rqReq.host = TemplateHost /\ rqReq.capsule \in {"absent", "?1"}
            /\ rqReq.bind \notin {"absent", "?0"}
            /\ ~(rqReq.bind = "?1" /\ rqReq.targetHost = <<"*">> /\ rqReq.targetPort = <<"*">>))
              => (~rqOut.ok /\ rqOut.status = StatusBadRequest)

\* A bind request for "*" and "*" was accepted.
C26_Witness ==
    /\ rqPC = "parsed" /\ rqBy = "ParseRequestBind"
    /\ rqReq.bind = "?1"
    /\ rqOut.ok /\ rqOut.bind /\ rqOut.target = <<"*", ":", "*">>

\* The call failed in ResolveUDPAddr, or in DialUDP after the address resolved.
ResolveFailed == psPC = "returned" /\ ~psIn.closed /\ psIn.resolveErr.is

DialFailed == psPC = "returned" /\ ~psIn.closed /\ ~psIn.resolveErr.is /\ psIn.dialErr.is

FailedWith ==
    IF psIn.resolveErr.is THEN psIn.resolveErr ELSE psIn.dialErr

\* C27: when resolving or dialing fails, exactly one status is written, and
\* it is 504 for a timeout, else 502 for a DNS error, else 400 for an address
\* or parse error, else 500.
C27_StatusFromErrorAlone ==
    (ResolveFailed \/ DialFailed) =>
        psWritten = << IF FailedWith.timeout THEN 504
                       ELSE IF FailedWith.dns THEN 502
                       ELSE IF FailedWith.addr THEN 400
                       ELSE 500 >>

\* C28: when the address resolves and DialUDP fails, the status is 502, the
\* Proxy-Status header carries error=destination_ip_unroutable, and the dial
\* error is returned.
C28_DialFailureIsBadGateway ==
    DialFailed =>
        /\ psWritten = <<StatusBadGateway>>
        /\ psHeader.set /\ psHeader.params.error = "destination_ip_unroutable"
        /\ psRet = Returned("err", psIn.dialErr)

\* C29: a ProxyConnectedSocket call that has returned has closed the UDP
\* socket it was given, whether it found the proxy closed, or its flow ended
\* by itself, or Proxy.Close ended it.
C29_SocketClosedOnReturn ==
    \A f \in Flows :
        (callKind(f) = "ProxyConnectedSocket" /\ pc[f] = "returned") => sockClosed[f]

\* A ProxyConnectedSocket call that was accepted with 200 has returned after
\* its three goroutines ended.
C29_Witness ==
    \E f \in Flows :
        /\ callKind(f) = "ProxyConnectedSocket" /\ pc[f] = "returned"
        /\ status[f] = StatusOK /\ ret[f] = "nil" /\ sockClosed[f]

\* C30: every SetReadDeadline call that has taken deadlineMx returns and has
\* released it, whatever the deadline and the state of the timer.
C30_SetReadDeadlineReturns ==
    (spc = "locked") ~> (spc = "idle" /\ deadlineMx # "SetReadDeadline")

C32_MapHoldsActiveFlows ==
    ~closed => \A f \in Flows : (f \in conns <=> pc[f] \in {"spawn", "wait"})

\* C33: a run of the read-deadline timer's function, which holds the deadline
\* lock, cancels the current read context exactly when the stored deadline is
\* non-zero and before now; when the deadline is zero or not before now (a
\* SetReadDeadline got in first) it cancels nothing.
C33_TimerCancelsOnlyPassedDeadline ==
    [][callbacks' < callbacks =>
         /\ deadlineMx = "free"
         /\ readCtx' = readCtx
         /\ IF deadline # 0 /\ deadline < now
               THEN cancelled' = cancelled \cup {readCtx}
               ELSE cancelled' = cancelled]_vars

\* The timer expired, SetReadDeadline moved the deadline to a later time, and
\* the timer's function then ran and left the new read context alone.
C33_Witness ==
    /\ cbSpared
    /\ callbacks = 0
    /\ deadline > now
    /\ readCtx \notin cancelled

\* C34 (first half): proxiedConn.Close gets past '<-c.readDone', and so
\* returns, only after the goroutine started by newProxiedConn has exited.
C34_CloseAfterTaskExit ==
    (cpc = "lock" \/ (closeCalls > 0 /\ cpc = "idle")) => skpc = "done"

\* C34: a Close that was called eventually returns (CancelRead ends the
\* goroutine's stream read in this model).
C34_CloseReturns ==
    (cpc = "begun") ~> (cpc = "idle")

\* C35: once the function of dialOnce has failed (c.dialErr is set), no Dial /
\* DialAddr call gets past the dialErr check: a call that reaches dialOnce.Do
\* returns c.dialErr (a call whose arguments are rejected before that returns
\* its own error), and quic.DialAddr is not called again.
C35_DialErrorIsFinal ==
    /\ [](dialErr =>
            /\ dialOnce = "done"
            /\ clConn = "nil" /\ ~rtSet
            /\ \A f \in Dials :
                 /\ dpc[f] \in {"idle", "once", "check", "returned"}
                 /\ dpc[f] = "returned" =>
                      \/ dret[f] = "dialErr"
                      \/ dret[f] = "error" /\ dsel[f] = NoSelect /\ dconn[f] = 0)
    /\ [][dialErr => quicDials' = quicDials]_vars

\* The QUIC dial failed, and the call that made it and two later calls have
\* all returned c.dialErr after that single dial.
C35_Witness ==
    /\ dialErr
    /\ quicDials = 1
    /\ \A f \in Dials : dpc[f] = "returned" /\ dret[f] = "dialErr"

\* C36: no Dial / DialAddr call, made before or after Client.Close, uses an
\* unset c.rt (the call 'c.rt.Start()' on a nil round tripper).
C36_DialAfterCloseFails ==
    \A f \in Dials : dret[f] # "panic"

\* C37: the context-ID assignments of a running bound flow stay in the table
\* its datagrams are looked up in while other bound flows start, run and end,
\* and a datagram a bound flow forwards uses an assignment of that flow.
C37_AssignmentsPrivate ==
    /\ \A f \in BoundFlows :
         bdpc[f] = "running" =>
           \A p \in ctOwn[f] : lookupContextID(ctTable[1], p[1]).found
    /\ ctSent.flow # 0 => \E p \in ctOwn[ctSent.flow] : p[1] = ctSent.id

\* C38: a context ID in use as the uncompressed context is not also a
\* compressed context of the same table.
C38_OneMeaningPerContextID ==
    ctTable # <<>> =>
        (ctTable[1].unc # NilID => ctTable[1].comp[ctTable[1].unc] = NoAddr)

\* An ADDRESS_ASSIGN / ADDRESS_REQUEST entry: request ID varint, IP version 4
\* or 6, an address of that version, a prefix length not above the address
\* bit length, and no address bit set after the prefix.
IsAddressEntry(e) ==
    /\ Len(e) >= 1
    /\ LET n == Pow2(e[1] \div 64)
       IN /\ Len(e) > n
          /\ e[n + 1] \in {4, 6}
          /\ Len(e) = n + 1 + AddrLen(e[n + 1]) + 1
          /\ e[Len(e)] <= 8 * AddrLen(e[n + 1])
          /\ LET ip == SubSeq(e, n + 2, Len(e) - 1)
             IN \A k \in (e[Len(e)] + 1)..(8 * Len(ip)) :
                  (ip[((k - 1) \div 8) + 1] \div (2 ^ (7 - ((k - 1) % 8)))) % 2 = 0

\* A ROUTE_ADVERTISEMENT entry: IP version 4 or 6, start and end address of
\* that version with start not above end, IP protocol.
IsRangeEntry(e) ==
    /\ Len(e) >= 1
    /\ e[1] \in {4, 6}
    /\ Len(e) = 1 + 2 * AddrLen(e[1]) + 1
    /\ ~CompareGreater(SubSeq(e, 2, 1 + AddrLen(e[1])),
                       SubSeq(e, 2 + AddrLen(e[1]), 1 + 2 * AddrLen(e[1])))

RECURSIVE WholeEntries(_, _)
\* b is a concatenation of whole well-formed entries of capsule type ct.
WholeEntries(ct, b) ==
    \/ b = <<>>
    \/ \E k \in 1..Len(b) :
         /\ IF ct = capsuleTypeRouteAdvertisement
              THEN IsRangeEntry(SubSeq(b, 1, k))
              ELSE IsAddressEntry(SubSeq(b, 1, k))
         /\ WholeEntries(ct, SubSeq(b, k + 1, Len(b)))

\* C39: a typed capsule parser returns no error if and only if the capsule
\* value is a concatenation of whole well-formed entries; a value that ends
\* within an entry is rejected, not parsed as the entries before the cut.
C39_AcceptsExactlyWholeEntries ==
    cpPC = "parsed" => (cpOut.err = "none" <=> WholeEntries(cpType, cpPayload))

\* C40: once readFromStream has stored the routes of a ROUTE_ADVERTISEMENT
\* capsule, a Routes call that is waiting eventually returns.
C40_RoutesWoken ==
    (availableRoutes # 0 /\ routesPC = "waiting") ~> (routesPC = "returned")

====
